---- MODULE Spec2Model ----
(***************************************************************************)
(* Job queue and lifecycle subsystem of the media downloader: the rate     *)
(* limiter, the two job backends (in-memory dict + asyncio queue, Redis +  *)
(* RQ), the lifecycle layer (create_job / job_status / job_update), the    *)
(* processing pipeline and the HTTP handlers that read and write records.  *)
(*                                                                         *)
(* Python values are modelled as follows.  An Optional value is a tuple:   *)
(* None is <<>> and a present value v is <<v>>.  A dict is a function      *)
(* whose DOMAIN is the set of its keys.  A uuid4 hex id is the next unused *)
(* natural number.  Messages and error texts are short tokens.  Readings   *)
(* of time.time() are integers that never go back.                         *)
(***************************************************************************)
EXTENDS Integers, Sequences, FiniteSets, TLC

\* ------------------------------------------------------------------ bounds
\* Number of jobs created in one behaviour in memory mode, where the single
\* worker takes them one after the other.
MaxJobs == 2
\* Number of jobs created in one behaviour in rq mode, where every work item
\* is run by its own run_job call and jobs share no record, key or directory.
MaxRqJobs == 1
\* Number of progress callbacks one transfer may issue.
MaxHooks == 2
\* Largest byte count a progress callback reports.
MaxBytes == 1
\* Number of artifact retrievals (GET /file) served in one behaviour.
MaxFileReq == 1
\* Scaled-down settings.rq_result_ttl_sec: ticks a Redis record outlives its
\* last write.
RqResultTtl == 2
\* Scaled-down settings.max_file_size_mb.
MaxFileSizeMb == 1
\* Store harness: jobs created, concurrent callers of the update operation,
\* update and set calls in one behaviour, largest value of time.time().
MaxStoreJobs == 2
MaxCallers == 2
MaxOps == 3
MaxClock == 1
\* Rate limiter: identities, largest limit and window (seconds), calls of
\* allow in one behaviour, largest value of time.time().
MaxIdentities == 2
MaxLimit == 2
MaxWindow == 2
MaxCalls == 4
MaxTime == 3
\* Readers of the store: lookups and mutations of a returned value in one
\* behaviour.
MaxReadOps == 3
\* Sweeper: scaled-down settings.job_ttl_sec, largest st_mtime of a path at
\* the first sweep (which runs at that time), sweeps in one behaviour.
JobTtlSec == 1
MaxMtime == 2
MaxSweeps == 2

VARIABLES
    mode,       \* jobs._backend: "memory", "rq", or "none" (not configured)
    jobs,       \* MemoryBackend.jobs: dict job_id -> record
    queue,      \* MemoryBackend.queue: asyncio.Queue of job ids
    redis,      \* Redis keyspace: key -> [val, ttl]
    rqueue,     \* RQ work queue: work items, each carrying only a job id
    nextId,     \* next fresh uuid
    clock,      \* time.time()
    returned,   \* history: the ids create_job has returned, in order
    expired,    \* history: the ids whose Redis record reached its TTL
    submitted,  \* history: job id -> the payload create_job was called with
    hist,       \* history: job id -> the statuses stored for it, in order
    probed,     \* history: job id -> the metadata the pipeline stored for it
    epc,        \* RQBackend.enqueue between redis.set and queue.enqueue
    wpc,        \* worker position (start_worker / run_job / process_job_async)
    wjob,       \* worker local job_id
    wpayload,   \* worker local payload
    wmeta,      \* pipeline local meta
    th,         \* the asyncio.to_thread transfer thread and its hook
    files,      \* files on disk under settings.tmp_dir: path -> size in MB
    ctasks,     \* _cleanup_after_download background tasks (threadpool)
    nfile,      \* number of GET /file requests served so far
    dpc,        \* delete_file between os.remove and job_update
    hc,         \* store harness: each caller's position inside its update
    nops,       \* store harness: update and set calls started so far
    lastop,     \* history: the last store write and the record it replaced
    written,    \* history: job id -> the value each field was last set to
    raced,      \* history: ids an update wrote after reading a stale record
    replaced,   \* history: ids written by a bare backend.set
    hits,       \* ratelimit._hits: identifier -> admitted event times
    rlnow,      \* time.time() as the rate limiter reads it
    rlLimit,    \* allow's limit
    rlWindow,   \* allow's window
    rllog,      \* history: the calls of allow, with the list each one found
    heap,       \* readers: the dict objects nested in records, by reference
    held,       \* readers: the outcome of the last lifecycle call
    canon,      \* history: job id -> the record as its last write stored it
    fs,         \* sweeper: the paths under settings.tmp_dir -> st_mtime
    fault,      \* sweeper: the one path and operation that raises OSError
    swpc,       \* periodic_cleanup: "sleep", "sweep", or "dead" (task ended)
    todo,       \* cleanup_expired_files: what _iter_all_paths has yet to yield
    visited,    \* history: the paths the running sweep has reached
    fs0,        \* history: the tree as the running sweep found it
    nsweep,     \* history: sweeps completed
    resp        \* history: the last HTTP response of a handler

storeVars == <<mode, jobs, queue, redis, rqueue, nextId, clock>>
procVars == <<returned, expired, submitted, hist, probed, epc, wpc, wjob,
              wpayload, wmeta, th, files, ctasks, nfile, dpc>>

\* ------------------------------------------------------------ Python values
None == <<>>
Some(v) == <<v>>
EmptyDict == <<>>

\* dict.update: the keys of `fields` overwrite or extend `current`.
DictUpdate(current, fields) ==
    [k \in DOMAIN current \cup DOMAIN fields |->
        IF k \in DOMAIN fields THEN fields[k] ELSE current[k]]

\* dict.setdefault(key, value)
SetDefault(d, key, value) ==
    IF key \in DOMAIN d THEN d ELSE DictUpdate(d, [k \in {key} |-> value])

\* d[key] = value
SetItem(d, key, value) == DictUpdate(d, [k \in {key} |-> value])

\* ---------------------------------------------------------------- records
\* Variant of InitialRecord that leaves the payload out of the record.
InitialRecordNoPayload(job_id, payload, now) ==
    [job_id |-> job_id, status |-> "queued", progress |-> 0,
     message |-> "queued", result |-> None, error |-> None, reason |-> None,
     file_path |-> None, filename |-> None, mimetype |-> None, meta |-> None,
     payload |-> EmptyDict, created_at |-> now, updated_at |-> now]

\* The record both backends write in enqueue.
InitialRecord(job_id, payload, now) ==
    [job_id |-> job_id, status |-> "queued", progress |-> 0,
     message |-> "queued", result |-> None, error |-> None, reason |-> None,
     file_path |-> None, filename |-> None, mimetype |-> None, meta |-> None,
     payload |-> payload, created_at |-> now, updated_at |-> now]

\* Keys in the order json.dumps writes them (a fixed order stands for the
\* dict's insertion order).
KeyOrder ==
    <<"job_id", "status", "progress", "message", "result", "error", "reason",
      "file_path", "filename", "mimetype", "meta", "payload", "created_at",
      "updated_at">>

RECURSIVE DumpFrom(_, _)
DumpFrom(d, i) ==
    IF i > Len(KeyOrder) THEN <<>>
    ELSE IF KeyOrder[i] \in DOMAIN d
         THEN <<(<<KeyOrder[i], d[KeyOrder[i]]>>)>> \o DumpFrom(d, i + 1)
         ELSE DumpFrom(d, i + 1)

\* json.dumps(data): the serialized text, as its sequence of key/value pairs.
JsonDumps(d) == DumpFrom(d, 1)

\* json.loads(raw): the dict the pairs denote.
JsonLoads(raw) ==
    [k \in {raw[i][1] : i \in DOMAIN raw} |->
        raw[CHOOSE i \in DOMAIN raw : raw[i][1] = k][2]]

\* --------------------------------------------------------- MemoryBackend
\* MemoryBackend.get: dict(job) if job else None
MemGet(j, job_id) ==
    IF job_id \in DOMAIN j /\ DOMAIN j[job_id] # {}
    THEN Some(j[job_id]) ELSE None

\* Variant of MemoryBackend.set that merges `data` into the stored record.
MemSetMerge(j, job_id, data) ==
    [k \in DOMAIN j \cup {job_id} |->
        IF k # job_id THEN j[k]
        ELSE IF job_id \in DOMAIN j THEN DictUpdate(j[job_id], data)
        ELSE data]

\* MemoryBackend.set: self.jobs[job_id] = dict(data)
MemSet(j, job_id, data) ==
    [k \in DOMAIN j \cup {job_id} |-> IF k = job_id THEN data ELSE j[k]]

\* ------------------------------------------------------------- RQBackend
\* Variant of Key whose template has no {id} placeholder.
KeyShared(job_id) == <<"job", 0>>

\* _key: KEY_TEMPLATE.format(id=job_id)
Key(job_id) == <<"job", job_id>>

\* redis.set(key, value, ex=ttl)
RedisSetEx(r, key, value, ttl) ==
    [k \in DOMAIN r \cup {key} |->
        IF k = key THEN [val |-> value, ttl |-> ttl] ELSE r[k]]

\* redis.get(key)
RedisGet(r, key) == IF key \in DOMAIN r THEN Some(r[key].val) ELSE None

\* RQBackend.get: None if not raw else json.loads(raw)
RqGet(r, job_id) ==
    LET raw == RedisGet(r, Key(job_id))
    IN IF raw = None THEN None ELSE Some(JsonLoads(raw[1]))

\* RQBackend.set: redis.set(_key(job_id), json.dumps(data), ex=ttl)
RqSet(r, job_id, data) ==
    RedisSetEx(r, Key(job_id), JsonDumps(data), RqResultTtl)

\* ------------------------------------------------- the configured backend
BackendGet(job_id) ==
    IF mode = "memory" THEN MemGet(jobs, job_id) ELSE RqGet(redis, job_id)

\* The status history of a job after `data` is stored for it: a status that
\* differs from the last one stored is appended.
HistAdd(h, job_id, data) ==
    LET old == IF job_id \in DOMAIN h THEN h[job_id] ELSE <<>>
    IN IF "status" \in DOMAIN data
          /\ (old = <<>> \/ old[Len(old)] # data["status"])
       THEN SetItem(h, job_id, Append(old, data["status"]))
       ELSE h

BackendSet(job_id, data) ==
    /\ jobs' = IF mode = "memory" THEN MemSet(jobs, job_id, data) ELSE jobs
    /\ redis' = IF mode = "rq" THEN RqSet(redis, job_id, data) ELSE redis
    /\ hist' = HistAdd(hist, job_id, data)

\* Python truthiness of an Optional[dict]: None and {} are falsy.
Falsy(opt) == opt = None \/ DOMAIN opt[1] = {}

\* `backend.get(job_id) or {}`
GetOrEmpty(job_id) ==
    LET g == BackendGet(job_id) IN IF Falsy(g) THEN EmptyDict ELSE g[1]

\* ------------------------------------------------------- lifecycle layer
\* job_status: None for an absent record, else dict(job)
JobStatus(job_id) ==
    LET job == BackendGet(job_id) IN IF job = None THEN None ELSE Some(job[1])

\* Variant of job_update that stores the named fields without merging them
\* into the record read.
JobUpdateDataBlind(current, job_id, fields, now) ==
    SetItem(SetItem(fields, "job_id", job_id), "updated_at", now)

\* job_update, lines 54-57: the record it hands to backend.set, given the
\* record it read.
JobUpdateData(current, job_id, fields, now) ==
    SetItem(DictUpdate(SetDefault(current, "job_id", job_id), fields),
            "updated_at", now)

\* job_update run without interruption (its caller and every other writer of
\* the record are sequenced on the event loop).
JobUpdate(job_id, fields) ==
    BackendSet(job_id, JobUpdateData(GetOrEmpty(job_id), job_id, fields, clock))

\* run_job.update, lines 135-136: the record it hands to backend.set.
RunJobUpdateData(current, fields) == DictUpdate(current, fields)

RunJobUpdate(job_id, fields) ==
    BackendSet(job_id, RunJobUpdateData(GetOrEmpty(job_id), fields))

\* The `update` callback handed to process_job_async: start_worker.updater
\* in memory mode, run_job.update in rq mode.
WorkerUpdate(job_id, fields) ==
    IF mode = "memory" THEN JobUpdate(job_id, fields)
    ELSE RunJobUpdate(job_id, fields)

\* ------------------------------------------------------------ the inputs
Min(a, b) == IF a < b THEN a ELSE b
Max(a, b) == IF a > b THEN a ELSE b

Ids == 1..Max(Max(MaxJobs, MaxRqJobs), MaxStoreJobs)

\* The ids one behaviour can create under the configured backend.
Creatable == 1..(IF mode = "memory" THEN MaxJobs ELSE MaxRqJobs)

\* Payloads handed to create_job: the three keys create_download writes, with
\* a format of each kind the pipeline distinguishes, and one without a URL.
Formats == {"source", "mp4", "mp3", "flac"}
Payloads ==
    {[url |-> "https://youtu.be/v", quality |-> "720p", format |-> f] :
        f \in Formats}
    \cup {[quality |-> "720p", format |-> "mp4"]}

\* A payload value that is not a str (an int, say): create_job stores the
\* dict it is given as it is.
NonStr == "<int>"

\* What the in-memory application is given in its own specification: keep
\* original, an audio target, a format outside the allowed set, a format that
\* is not a str, and a payload without url.
WorkerPayloads ==
    {[url |-> "https://youtu.be/v", quality |-> "720p", format |-> f] :
        f \in {"source", "mp3", "flac", NonStr}}
    \cup {[quality |-> "720p", format |-> "mp4"]}

\* worker.ALLOWED_FORMATS
ALLOWED_FORMATS == {"mp4", "webm", "mkv", "mp3", "m4a", "ogg", "source"}

\* What probe can return: estimated_size_mb absent, at the limit, above it.
Metas ==
    {[title |-> "t", estimated_size_mb |-> e] :
        e \in {None, Some(MaxFileSizeMb), Some(MaxFileSizeMb + 1)}}

\* Sizes (MB) of a transferred file: at the limit, above it.
FileSizes == {MaxFileSizeMb, MaxFileSizeMb + 1}

\* The transferred artifact and the transcoded artifact of a job, under
\* settings.tmp_dir / job_id.  download_video merges to mp4; convert_any
\* names its output after the target format (a "_conv" stem when the suffix
\* is the same), so the two always differ.
SourcePath(job_id) == <<job_id, "title", "mp4">>

\* Variant of ConvertedPath for a transcode that writes over its input.
ConvertedPathInPlace(source, want) == source

ConvertedPath(source, want) ==
    IF source[3] = want THEN <<source[1], "title_conv", want>>
    ELSE <<source[1], source[2], want>>
FileName(path) == <<path[2], path[3]>>

\* paths.guess_mimetype
GuessMimetype(ext) ==
    IF ext \in {"mp4", "webm"} THEN "video/" \o ext
    ELSE IF ext = "mkv" THEN "video/x-matroska"
    ELSE IF ext = "mp3" THEN "audio/mpeg"
    ELSE IF ext = "m4a" THEN "audio/mp4"
    ELSE IF ext = "ogg" THEN "audio/ogg"
    ELSE "application/octet-stream"

\* dict.get(key) of a str-valued key: None when the key is missing.
DictGet(d, key) == IF key \in DOMAIN d THEN Some(d[key]) ELSE None

\* process_job_async, line 34:
\* (payload.get("want") or payload.get("format") or "mp4").lower()
\* (the format tokens of the model are lower-case already)
Want(payload) ==
    IF "want" \in DOMAIN payload /\ payload["want"] # ""
    THEN payload["want"]
    ELSE IF "format" \in DOMAIN payload /\ payload["format"] # ""
         THEN payload["format"]
         ELSE "mp4"

\* process_job_async, lines 29-34: the url is there and `.lower()` is called
\* on a value that is not a str: AttributeError, outside the pipeline's try.
RaisesBeforeTry(payload) ==
    /\ DictGet(payload, "url") \notin {None, Some("")}
    /\ Want(payload) = NonStr

\* downloader.check_size_or_fail: TRUE when it raises.
CheckSizeFails(estimated_size_mb, max_size_mb) ==
    /\ estimated_size_mb # None
    /\ estimated_size_mb[1] > max_size_mb

\* downloader.ensure_size_within_limit on an existing file: TRUE when it
\* raises.
SizeOverLimit(size_mb, max_size_mb) == size_mb # 0 /\ size_mb > max_size_mb

\* process_job_async.hook, line 62: int(15 + (done / total) * 70).  For the
\* byte counts of the model (total <= 34) the float expression truncates to
\* this integer.
Percent(done, total) == 15 + (70 * done) \div total

\* process_job_async.hook, line 63: min(90, max(20, percent))
HookProgress(done, total) == Min(90, Max(20, Percent(done, total)))

\* ------------------------------------------------------------------ Init
ThreadOff == [pc |-> "off", cur |-> EmptyDict, val |-> 0, n |-> 0]
CallerIdle == [pc |-> "idle"]
NoOp == [kind |-> "none"]
NoResponse == [op |-> "none", status |-> 0, job_id |-> None]
NoCall == [op |-> "none", job_id |-> 0, raised |-> FALSE, mut |-> FALSE,
           value |-> None]

\* Everything but the configured backend.
Constructed ==
    /\ jobs = <<>>
    /\ queue = <<>>
    /\ redis = <<>>
    /\ rqueue = <<>>
    /\ nextId = 1
    /\ clock = 0
    /\ returned = <<>>
    /\ expired = {}
    /\ submitted = <<>>
    /\ hist = <<>>
    /\ probed = <<>>
    /\ epc = None
    /\ wpc = "wait"
    /\ wjob = 0
    /\ wpayload = EmptyDict
    /\ wmeta = EmptyDict
    /\ th = ThreadOff
    /\ files = <<>>
    /\ ctasks = <<>>
    /\ nfile = 0
    /\ dpc = None
    /\ hc = [c \in 1..MaxCallers |-> CallerIdle]
    /\ nops = 0
    /\ lastop = NoOp
    /\ written = <<>>
    /\ raced = {}
    /\ replaced = {}
    /\ heap = <<>>
    /\ held = NoCall
    /\ canon = <<>>
    /\ resp = NoResponse

\* main.lifespan configures one of the two backends before any request.
ProgramInit ==
    /\ mode \in {"memory", "rq"}
    /\ Constructed

Identities == 1..MaxIdentities

\* The rate limiter before its first call, with the largest limit and window.
LimiterIdle ==
    /\ hits = <<>>
    /\ rlnow = 0
    /\ rllog = <<>>
    /\ rlLimit = MaxLimit
    /\ rlWindow = MaxWindow

\* The sweeper before its first sweep, over an empty directory.
SweeperIdle ==
    /\ fs = <<>>
    /\ fault = None
    /\ swpc = "sleep"
    /\ todo = <<>>
    /\ visited = {}
    /\ fs0 = <<>>
    /\ nsweep = 0

Init ==
    /\ ProgramInit
    /\ LimiterIdle
    /\ SweeperIdle

\* The event loop of the API process runs one handler at a time, and in
\* memory mode the worker coroutine shares it: a handler starts only while
\* the worker is suspended (in queue.get on an empty queue, or awaiting the
\* transfer thread).
ApiFree ==
    /\ epc = None
    /\ dpc = None
    /\ mode = "memory" => wpc \in {"wait", "download"}

\* The worker coroutine runs only between handlers.
WorkerFree == mode = "memory" => (epc = None /\ dpc = None)

\* Variant of Resume for a worker without its `while True`: after one id the
\* coroutine is over.
ResumeOnce(q) == "over"

\* Where the worker goes after a job: queue.get returns without yielding
\* when an id is waiting.
Resume(q) == IF mode = "memory" /\ q # <<>> THEN "next" ELSE "wait"

\* ----------------------------------------------------------- create_job
\* MemoryBackend.enqueue: a fresh id, the initial record, the id put on the
\* asyncio queue, the id returned
MemoryBackendEnqueue(payload) ==
    /\ jobs' = MemSet(jobs, nextId, InitialRecord(nextId, payload, clock))
    /\ queue' = Append(queue, nextId)
    /\ returned' = Append(returned, nextId)
    /\ submitted' = SetItem(submitted, nextId, payload)
    /\ hist' = HistAdd(hist, nextId, InitialRecord(nextId, payload, clock))
    /\ nextId' = nextId + 1

\* RQBackend.enqueue, lines 39-58: a fresh id, the initial record written to
\* Redis with its TTL
RQBackendEnqueueWrite(payload) ==
    /\ redis' = RqSet(redis, nextId, InitialRecord(nextId, payload, clock))
    /\ epc' = Some(nextId)
    /\ submitted' = SetItem(submitted, nextId, payload)
    /\ hist' = HistAdd(hist, nextId, InitialRecord(nextId, payload, clock))
    /\ nextId' = nextId + 1

\* RQBackend.enqueue, lines 59-67: the work item is queued, the id returned
RQBackendEnqueuePush ==
    /\ rqueue' = Append(rqueue, epc[1])
    /\ returned' = Append(returned, epc[1])
    /\ epc' = None

\* POST /download reaching create_job in memory mode
MemEnqueue(payload) ==
    /\ mode = "memory"
    /\ ApiFree
    /\ nextId \in Creatable
    /\ MemoryBackendEnqueue(payload)
    /\ UNCHANGED <<mode, redis, rqueue, clock, expired, probed, epc, wpc,
                   wjob, wpayload, wmeta, th, files, ctasks, nfile, dpc, hc,
                   nops, lastop, written, raced, replaced, hits, rlnow,
                   rlLimit, rlWindow, rllog, heap, held, canon, fs, fault,
                   swpc, todo, visited, fs0, nsweep, resp>>

\* POST /download reaching create_job in rq mode: the record is written
RqEnqueueWrite(payload) ==
    /\ mode = "rq"
    /\ ApiFree
    /\ nextId \in Creatable
    /\ RQBackendEnqueueWrite(payload)
    /\ UNCHANGED <<mode, jobs, queue, rqueue, clock, returned, expired,
                   probed, wpc, wjob, wpayload, wmeta, th, files, ctasks,
                   nfile, dpc, hc, nops, lastop, written, raced, replaced,
                   hits, rlnow, rlLimit, rlWindow, rllog, heap, held, canon,
                   fs, fault, swpc, todo, visited, fs0, nsweep, resp>>

\* ... and the work item is queued
RqEnqueuePush ==
    /\ mode = "rq"
    /\ epc # None
    /\ RQBackendEnqueuePush
    /\ UNCHANGED <<mode, jobs, queue, redis, nextId, clock, expired,
                   submitted, hist, probed, wpc, wjob, wpayload, wmeta, th,
                   files, ctasks, nfile, dpc, hc, nops, lastop, written,
                   raced, replaced, hits, rlnow, rlLimit, rlWindow, rllog,
                   heap, held, canon, fs, fault, swpc, todo, visited, fs0,
                   nsweep, resp>>

\* ------------------------------------------------------------- the worker
\* `job.get("payload") or {}`
PayloadOf(job) ==
    IF "payload" \in DOMAIN job /\ DOMAIN job["payload"] # {}
    THEN job["payload"] ELSE EmptyDict

\* Variant of WorkerPickup that marks a missing record as failed instead of
\* passing over the id.
WorkerPickupMarksMissing ==
    /\ WorkerFree
    /\ wpc \in {"wait", "next"}
    /\ LET q == IF mode = "memory" THEN queue ELSE rqueue
           job == JobStatus(Head(q))
       IN /\ q # <<>>
          /\ queue' = IF mode = "memory" THEN Tail(queue) ELSE queue
          /\ rqueue' = IF mode = "rq" THEN Tail(rqueue) ELSE rqueue
          /\ IF Falsy(job)
             THEN /\ wpc' = Resume(queue')
                  /\ redis' = RqSet(redis, Head(q), [status |-> "error"])
                  /\ UNCHANGED <<wjob, wpayload, jobs, hist>>
             ELSE /\ wpc' = "start"
                  /\ wjob' = Head(q)
                  /\ wpayload' = PayloadOf(job[1])
                  /\ UNCHANGED <<jobs, redis, hist>>
    /\ UNCHANGED <<mode, nextId, clock, returned, expired, submitted, probed,
                   epc, wmeta, th, files, ctasks, nfile, dpc, hc, nops,
                   lastop, written, raced, replaced, hits, rlnow, rlLimit,
                   rlWindow, rllog, heap, held, canon, fs, fault, swpc, todo,
                   visited, fs0, nsweep, resp>>

\* Variant of WorkerPickup that does not wait for the pipeline of the id
\* taken before: a second consumer of the queue.
WorkerPickupAnytime ==
    /\ WorkerFree
    /\ LET q == IF mode = "memory" THEN queue ELSE rqueue
           job == JobStatus(Head(q))
       IN /\ q # <<>>
          /\ queue' = IF mode = "memory" THEN Tail(queue) ELSE queue
          /\ rqueue' = IF mode = "rq" THEN Tail(rqueue) ELSE rqueue
          /\ IF Falsy(job)
             THEN /\ wpc' = Resume(queue')
                  /\ UNCHANGED <<wjob, wpayload>>
             ELSE /\ wpc' = "start"
                  /\ wjob' = Head(q)
                  /\ wpayload' = PayloadOf(job[1])
    /\ UNCHANGED <<mode, jobs, redis, nextId, clock, returned, expired,
                   submitted, hist, probed, epc, wmeta, th, files, ctasks,
                   nfile, dpc, hc, nops, lastop, written, raced, replaced,
                   hits, rlnow, rlLimit, rlWindow, rllog, heap, held, canon,
                   fs, fault, swpc, todo, visited, fs0, nsweep, resp>>

\* start_worker, lines 35-40 (memory) and run_job, lines 126-132 (rq): take
\* an id, look the record up, skip it when it is missing.
WorkerPickup ==
    /\ WorkerFree
    /\ wpc \in {"wait", "next"}
    /\ LET q == IF mode = "memory" THEN queue ELSE rqueue
           job == JobStatus(Head(q))
       IN /\ q # <<>>
          /\ queue' = IF mode = "memory" THEN Tail(queue) ELSE queue
          /\ rqueue' = IF mode = "rq" THEN Tail(rqueue) ELSE rqueue
          /\ IF Falsy(job)
             THEN /\ wpc' = Resume(queue')
                  /\ UNCHANGED <<wjob, wpayload>>
             ELSE /\ wpc' = "start"
                  /\ wjob' = Head(q)
                  /\ wpayload' = PayloadOf(job[1])
    /\ UNCHANGED <<mode, jobs, redis, nextId, clock, returned, expired,
                   submitted, hist, probed, epc, wmeta, th, files, ctasks,
                   nfile, dpc, hc, nops, lastop, written, raced, replaced,
                   hits, rlnow, rlLimit, rlWindow, rllog, heap, held, canon,
                   fs, fault, swpc, todo, visited, fs0, nsweep, resp>>

\* Variant of PipelineError without the `return` after the error write: the
\* pipeline carries on with the probe.
PipelineErrorNoReturn(msg, err) ==
    /\ WorkerUpdate(wjob, [status |-> "error", message |-> msg,
                           error |-> Some(err)])
    /\ wpc' = "probe"
    /\ th' = ThreadOff
    /\ UNCHANGED <<mode, queue, rqueue, nextId, clock, returned, expired,
                   submitted, probed, epc, wjob, wpayload, wmeta, files,
                   ctasks, nfile, dpc, hc, nops, lastop, written, raced,
                   replaced, hits, rlnow, rlLimit, rlWindow, rllog, heap,
                   held, canon, fs, fault, swpc, todo, visited, fs0, nsweep,
                   resp>>

\* The pipeline's `except Exception` (line 119-121), and the early error
\* returns: one error write, and the worker is back at its loop.
PipelineError(msg, err) ==
    /\ WorkerUpdate(wjob, [status |-> "error", message |-> msg,
                           error |-> Some(err)])
    /\ wpc' = Resume(queue)
    /\ th' = ThreadOff
    /\ UNCHANGED <<mode, queue, rqueue, nextId, clock, returned, expired,
                   submitted, probed, epc, wjob, wpayload, wmeta, files,
                   ctasks, nfile, dpc, hc, nops, lastop, written, raced,
                   replaced, hits, rlnow, rlLimit, rlWindow, rllog, heap,
                   held, canon, fs, fault, swpc, todo, visited, fs0, nsweep,
                   resp>>

\* process_job_async, lines 29-48
PipelineStart ==
    /\ WorkerFree
    /\ wpc = "start"
    /\ ~RaisesBeforeTry(wpayload)
    /\ IF DictGet(wpayload, "url") \in {None, Some("")}
       THEN PipelineError("no_url", "missing_url")
       ELSE IF Want(wpayload) \notin ALLOWED_FORMATS
       THEN PipelineError("bad_format", "unsupported_format")
       ELSE /\ WorkerUpdate(wjob, [status |-> "fetching",
                                   message |-> "probing", progress |-> 5])
            /\ wpc' = "probe"
            /\ UNCHANGED <<mode, queue, rqueue, nextId, clock, returned,
                           expired, submitted, probed, epc, wjob, wpayload,
                           wmeta, th, files, ctasks, nfile, dpc, hc, nops,
                           lastop, written, raced, replaced, hits, rlnow,
                           rlLimit, rlWindow, rllog, heap, held, canon, fs,
                           fault, swpc, todo, visited, fs0, nsweep, resp>>

\* Variant of PipelineRaises for a loop without its `except Exception`: the
\* failure ends the worker coroutine.
PipelineRaisesUncaught ==
    /\ WorkerFree
    /\ wpc = "start"
    /\ RaisesBeforeTry(wpayload)
    /\ wpc' = "over"
    /\ UNCHANGED <<mode, jobs, queue, redis, rqueue, nextId, clock, returned,
                   expired, submitted, hist, probed, epc, wjob, wpayload,
                   wmeta, th, files, ctasks, nfile, dpc, hc, nops, lastop,
                   written, raced, replaced, hits, rlnow, rlLimit, rlWindow,
                   rllog, heap, held, canon, fs, fault, swpc, todo, visited,
                   fs0, nsweep, resp>>

\* process_job_async raises outside its own try (line 34).  start_worker,
\* lines 44-49: the loop's `except Exception` writes the error and the loop
\* goes on.  run_job (lines 124-139) has no handler: the exception goes to RQ
\* and the record is left as it is.
PipelineRaises ==
    /\ WorkerFree
    /\ wpc = "start"
    /\ RaisesBeforeTry(wpayload)
    /\ IF mode = "memory"
       THEN JobUpdate(wjob, [status |-> "error", message |-> "no_lower",
                             error |-> Some("no_lower")])
       ELSE UNCHANGED <<jobs, redis, hist>>
    /\ wpc' = Resume(queue)
    /\ UNCHANGED <<mode, queue, rqueue, nextId, clock, returned, expired,
                   submitted, probed, epc, wjob, wpayload, wmeta, th, files,
                   ctasks, nfile, dpc, hc, nops, lastop, written, raced,
                   replaced, hits, rlnow, rlLimit, rlWindow, rllog, heap,
                   held, canon, fs, fault, swpc, todo, visited, fs0, nsweep,
                   resp>>

\* process_job_async, lines 49-50: probe returns metadata, or raises
PipelineProbe ==
    /\ WorkerFree
    /\ wpc = "probe"
    /\ \/ \E meta \in Metas :
            /\ WorkerUpdate(wjob, [meta |-> Some(meta)])
            /\ wmeta' = meta
            /\ probed' = SetItem(probed, wjob, meta)
            /\ wpc' = "check"
            /\ UNCHANGED <<mode, queue, rqueue, nextId, clock, returned,
                           expired, submitted, epc, wjob, wpayload, th, files,
                           ctasks, nfile, dpc, hc, nops, lastop, written,
                           raced, replaced, hits, rlnow, rlLimit, rlWindow,
                           rllog, heap, held, canon, fs, fault, swpc, todo,
                           visited, fs0, nsweep, resp>>
       \/ PipelineError("probe_failed", "probe_failed")

\* process_job_async, lines 51-71: the size check, the downloading write, and
\* the transfer thread is started
PipelineCheck ==
    /\ WorkerFree
    /\ wpc = "check"
    /\ IF CheckSizeFails(wmeta.estimated_size_mb, MaxFileSizeMb)
       THEN PipelineError("estimate_over_limit", "estimate_over_limit")
       ELSE /\ WorkerUpdate(wjob, [status |-> "downloading",
                                   message |-> "downloading",
                                   progress |-> 15])
            /\ wpc' = "download"
            /\ th' = [ThreadOff EXCEPT !.pc = "run"]
            /\ UNCHANGED <<mode, queue, rqueue, nextId, clock, returned,
                           expired, submitted, probed, epc, wjob, wpayload,
                           wmeta, files, ctasks, nfile, dpc, hc, nops, lastop,
                           written, raced, replaced, hits, rlnow, rlLimit,
                           rlWindow, rllog, heap, held, canon, fs, fault,
                           swpc, todo, visited, fs0, nsweep, resp>>

\* ---------------------------------------------------- the transfer thread
\* downloader.download_video runs in asyncio.to_thread and calls the hook
\* from that thread.  The hook's update is a read of the record followed by
\* a write of the whole record: two steps of the thread.

\* hook, lines 59-63, and the read inside its update (job_update line 54,
\* run_job.update line 135)
HookRead(done, total) ==
    /\ th.pc = "run"
    /\ th.n < MaxHooks
    /\ total # 0
    /\ th' = [pc |-> "got", cur |-> GetOrEmpty(wjob),
              val |-> HookProgress(done, total), n |-> th.n + 1]
    /\ UNCHANGED <<mode, jobs, queue, redis, rqueue, nextId, clock, returned,
                   expired, submitted, hist, probed, epc, wpc, wjob, wpayload,
                   wmeta, files, ctasks, nfile, dpc, hc, nops, lastop,
                   written, raced, replaced, hits, rlnow, rlLimit, rlWindow,
                   rllog, heap, held, canon, fs, fault, swpc, todo, visited,
                   fs0, nsweep, resp>>

\* Variant of HookData that stores the named field alone instead of merging
\* it into the record read.
HookDataBlind(current, job_id, progress, now) == [progress |-> progress]

\* The record the hook's update stores, given the record it read.
HookData(current, job_id, progress, now) ==
    IF mode = "memory"
    THEN JobUpdateData(current, job_id, [progress |-> progress], now)
    ELSE RunJobUpdateData(current, [progress |-> progress])

\* the write inside the hook's update (job_update lines 55-58, run_job.update
\* lines 136-137)
HookWrite ==
    /\ th.pc = "got"
    /\ BackendSet(wjob, HookData(th.cur, wjob, th.val, clock))
    /\ th' = [th EXCEPT !.pc = "run", !.cur = EmptyDict, !.val = 0]
    /\ UNCHANGED <<mode, queue, rqueue, nextId, clock, returned, expired,
                   submitted, probed, epc, wpc, wjob, wpayload, wmeta, files,
                   ctasks, nfile, dpc, hc, nops, lastop, written, raced,
                   replaced, hits, rlnow, rlLimit, rlWindow, rllog, heap,
                   held, canon, fs, fault, swpc, todo, visited, fs0, nsweep,
                   resp>>

\* hook, line 61: a callback without a total writes nothing
HookNoTotal ==
    /\ th.pc = "run"
    /\ th.n < MaxHooks
    /\ th' = [th EXCEPT !.n = th.n + 1]
    /\ UNCHANGED <<mode, jobs, queue, redis, rqueue, nextId, clock, returned,
                   expired, submitted, hist, probed, epc, wpc, wjob, wpayload,
                   wmeta, files, ctasks, nfile, dpc, hc, nops, lastop,
                   written, raced, replaced, hits, rlnow, rlLimit, rlWindow,
                   rllog, heap, held, canon, fs, fault, swpc, todo, visited,
                   fs0, nsweep, resp>>

\* download_video returns the path of the file it wrote, or raises
TransferReturn ==
    /\ th.pc = "run"
    /\ \/ \E size \in FileSizes :
            /\ files' = MemSet(files, SourcePath(wjob), size)
            /\ th' = [th EXCEPT !.pc = "ok"]
       \/ /\ th' = [th EXCEPT !.pc = "fail"]
          /\ UNCHANGED <<files>>
    /\ UNCHANGED <<mode, jobs, queue, redis, rqueue, nextId, clock, returned,
                   expired, submitted, hist, probed, epc, wpc, wjob, wpayload,
                   wmeta, ctasks, nfile, dpc, hc, nops, lastop, written,
                   raced, replaced, hits, rlnow, rlLimit, rlWindow, rllog,
                   heap, held, canon, fs, fault, swpc, todo, visited, fs0,
                   nsweep, resp>>

\* -------------------------------------------- the pipeline, second half
\* process_job_async, lines 104-117: the done write
ResultOf(final, meta) ==
    [file_path |-> final, filename |-> FileName(final),
     mimetype |-> GuessMimetype(final[3]), meta |-> meta]

DoneFields(final, meta) ==
    [status |-> "done", message |-> "ready", progress |-> 100,
     result |-> Some(ResultOf(final, meta)), file_path |-> Some(final),
     filename |-> Some(FileName(final)),
     mimetype |-> Some(GuessMimetype(final[3]))]

\* process_job_async, lines 82-83
ConvertingProgress(want) == IF want \in {"mp4", "webm", "mkv"} THEN 95 ELSE 92

\* process_job_async, lines 72-88: the transfer is over; the size check; then
\* either the done write (keep original) or the converting write
PipelineAfterDownload ==
    /\ WorkerFree
    /\ wpc = "download"
    /\ th.pc \in {"ok", "fail"}
    /\ LET src == SourcePath(wjob)
           want == Want(wpayload)
       IN IF th.pc = "fail"
          THEN PipelineError("download_failed", "download_failed")
          ELSE IF src \notin DOMAIN files
          THEN PipelineError("stat_failed", "stat_failed")
          ELSE IF SizeOverLimit(files[src], MaxFileSizeMb)
          THEN PipelineError("file_over_limit", "file_over_limit")
          ELSE IF want = "source"
          THEN /\ WorkerUpdate(wjob, DoneFields(src, wmeta))
               /\ wpc' = Resume(queue)
               /\ th' = ThreadOff
               /\ UNCHANGED <<mode, queue, rqueue, nextId, clock, returned,
                              expired, submitted, probed, epc, wjob, wpayload,
                              wmeta, files, ctasks, nfile, dpc, hc, nops,
                              lastop, written, raced, replaced, hits, rlnow,
                              rlLimit, rlWindow, rllog, heap, held, canon, fs,
                              fault, swpc, todo, visited, fs0, nsweep, resp>>
          ELSE /\ WorkerUpdate(wjob,
                     [status |-> "converting", message |-> "converting",
                      progress |-> ConvertingProgress(want)])
               /\ wpc' = "convert"
               /\ th' = ThreadOff
               /\ UNCHANGED <<mode, queue, rqueue, nextId, clock, returned,
                              expired, submitted, probed, epc, wjob, wpayload,
                              wmeta, files, ctasks, nfile, dpc, hc, nops,
                              lastop, written, raced, replaced, hits, rlnow,
                              rlLimit, rlWindow, rllog, heap, held, canon, fs,
                              fault, swpc, todo, visited, fs0, nsweep, resp>>

\* process_job_async, lines 89-117: convert_any writes the new file or
\* raises; on success the source is unlinked (an OSError there is passed
\* over) and the done write follows
PipelineConvert ==
    /\ WorkerFree
    /\ wpc = "convert"
    /\ LET src == SourcePath(wjob)
           final == ConvertedPath(src, Want(wpayload))
       IN \/ /\ src \in DOMAIN files
             /\ \E unlinked \in BOOLEAN :
                   files' = [p \in (DOMAIN files \cup {final})
                                   \ (IF unlinked THEN {src} ELSE {}) |->
                               IF p = final THEN 1 ELSE files[p]]
             /\ WorkerUpdate(wjob, DoneFields(final, wmeta))
             /\ wpc' = Resume(queue)
             /\ UNCHANGED <<mode, queue, rqueue, nextId, clock, returned,
                            expired, submitted, probed, epc, wjob, wpayload,
                            wmeta, th, ctasks, nfile, dpc, hc, nops, lastop,
                            written, raced, replaced, hits, rlnow, rlLimit,
                            rlWindow, rllog, heap, held, canon, fs, fault,
                            swpc, todo, visited, fs0, nsweep, resp>>
          \/ PipelineError("ffmpeg_failed", "ffmpeg_failed")

\* ------------------------------------------------------- the API handlers
\* The response of GET or DELETE /file/{job_id}; status 0 while the handler
\* has not answered yet.
Answer(op, status, job_id, path) ==
    [op |-> op, status |-> status, job_id |-> Some(job_id), path |-> path]

\* file and delete_file, lines 87-88 and 102-103: the record names an artifact
\* (and, for file, the job is done).
HasResult(job) ==
    /\ ~Falsy(job)
    /\ DictGet(job[1], "result") \notin {None, Some(None)}

FileReady(job) == HasResult(job) /\ job[1]["status"] = "done"

\* GET /file/{job_id}, lines 87-97: a done job's artifact is served and the
\* cleanup task is run once the response has been sent.  FileResponse stats
\* the file when it sends: for a missing file it raises, the client gets a
\* 500 and the background task is not run.
FileRequest(job_id) ==
    /\ ApiFree
    /\ nfile < MaxFileReq
    /\ LET job == JobStatus(job_id)
           path == job[1]["result"][1].file_path
       IN /\ FileReady(job)
          /\ IF path \in DOMAIN files
             THEN /\ ctasks' = Append(ctasks,
                        [job_id |-> job_id, path |-> path,
                         pc |-> "start", cur |-> EmptyDict])
                  /\ resp' = Answer("GET /file", 200, job_id, path)
             ELSE /\ ctasks' = ctasks
                  /\ resp' = Answer("GET /file", 500, job_id, path)
    /\ nfile' = nfile + 1
    /\ UNCHANGED <<mode, jobs, queue, redis, rqueue, nextId, clock, returned,
                   expired, submitted, hist, probed, epc, wpc, wjob, wpayload,
                   wmeta, th, files, dpc, hc, nops, lastop, written, raced,
                   replaced, hits, rlnow, rlLimit, rlWindow, rllog, heap,
                   held, canon, fs, fault, swpc, todo, visited, fs0, nsweep>>

\* GET /file/{job_id}, lines 88-89: anything else is a 404.
FileNotReady(job_id) ==
    /\ ApiFree
    /\ nfile < MaxFileReq
    /\ ~FileReady(JobStatus(job_id))
    /\ resp' = Answer("GET /file", 404, job_id, None)
    /\ nfile' = nfile + 1
    /\ UNCHANGED <<mode, jobs, queue, redis, rqueue, nextId, clock, returned,
                   expired, submitted, hist, probed, epc, wpc, wjob, wpayload,
                   wmeta, th, files, ctasks, dpc, hc, nops, lastop, written,
                   raced, replaced, hits, rlnow, rlLimit, rlWindow, rllog,
                   heap, held, canon, fs, fault, swpc, todo, visited, fs0,
                   nsweep>>

\* Path.unlink / os.remove of a file that may be gone already
RemoveFile(f, path) == [p \in DOMAIN f \ {path} |-> f[p]]

\* _cleanup_after_download, lines 118-121: delete_path; an error is passed
\* over and leaves the file
CleanupDelete(i) ==
    /\ ctasks[i].pc = "start"
    /\ \/ files' = RemoveFile(files, ctasks[i].path)
       \/ UNCHANGED <<files>>
    /\ ctasks' = [ctasks EXCEPT ![i].pc = "update"]
    /\ UNCHANGED <<mode, jobs, queue, redis, rqueue, nextId, clock, returned,
                   expired, submitted, hist, probed, epc, wpc, wjob, wpayload,
                   wmeta, th, nfile, dpc, hc, nops, lastop, written, raced,
                   replaced, hits, rlnow, rlLimit, rlWindow, rllog, heap,
                   held, canon, fs, fault, swpc, todo, visited, fs0, nsweep,
                   resp>>

\* _cleanup_after_download, line 122: the read inside job_update
CleanupRead(i) ==
    /\ ctasks[i].pc = "update"
    /\ ctasks' = [ctasks EXCEPT ![i].pc = "got",
                                ![i].cur = GetOrEmpty(ctasks[i].job_id)]
    /\ UNCHANGED <<mode, jobs, queue, redis, rqueue, nextId, clock, returned,
                   expired, submitted, hist, probed, epc, wpc, wjob, wpayload,
                   wmeta, th, files, nfile, dpc, hc, nops, lastop, written,
                   raced, replaced, hits, rlnow, rlLimit, rlWindow, rllog,
                   heap, held, canon, fs, fault, swpc, todo, visited, fs0,
                   nsweep, resp>>

\* Variant of DeletedFields that leaves the result in place.
DeletedFieldsKeepResult(msg) == [status |-> "deleted", message |-> msg]

\* The fields delete_file and _cleanup_after_download write.
DeletedFields(msg) == [result |-> None, status |-> "deleted", message |-> msg]

\* _cleanup_after_download, line 122: the write inside job_update
CleanupWrite(i) ==
    /\ ctasks[i].pc = "got"
    /\ BackendSet(ctasks[i].job_id,
                  JobUpdateData(ctasks[i].cur, ctasks[i].job_id,
                                DeletedFields("deleted_after_download"),
                                clock))
    /\ ctasks' = [ctasks EXCEPT ![i].pc = "done", ![i].cur = EmptyDict]
    /\ UNCHANGED <<mode, queue, rqueue, nextId, clock, returned, expired,
                   submitted, probed, epc, wpc, wjob, wpayload, wmeta, th,
                   files, nfile, dpc, hc, nops, lastop, written, raced,
                   replaced, hits, rlnow, rlLimit, rlWindow, rllog, heap,
                   held, canon, fs, fault, swpc, todo, visited, fs0, nsweep,
                   resp>>

\* DELETE /file/{job_id}, lines 102-110: the record has a result; the file
\* is removed (FileNotFoundError is passed over).  Without a result the
\* handler answers 404 and changes nothing.
DeleteBegin(job_id) ==
    /\ ApiFree
    /\ LET job == JobStatus(job_id)
           path == job[1]["result"][1].file_path
       IN /\ HasResult(job)
          /\ files' = RemoveFile(files, path)
          /\ resp' = Answer("DELETE /file", 0, job_id, path)
    /\ dpc' = Some(job_id)
    /\ UNCHANGED <<mode, jobs, queue, redis, rqueue, nextId, clock, returned,
                   expired, submitted, hist, probed, epc, wpc, wjob, wpayload,
                   wmeta, th, ctasks, nfile, hc, nops, lastop, written, raced,
                   replaced, hits, rlnow, rlLimit, rlWindow, rllog, heap,
                   held, canon, fs, fault, swpc, todo, visited, fs0, nsweep>>

\* DELETE /file/{job_id}, lines 107-110: os.remove raises an OSError other
\* than FileNotFoundError (the file is there and cannot be removed); the
\* exception leaves the handler and the client gets a 500.
DeleteRaises(job_id) ==
    /\ ApiFree
    /\ LET job == JobStatus(job_id)
           path == job[1]["result"][1].file_path
       IN /\ HasResult(job)
          /\ path \in DOMAIN files
          /\ resp' = Answer("DELETE /file", 500, job_id, path)
    /\ UNCHANGED <<mode, jobs, queue, redis, rqueue, nextId, clock, returned,
                   expired, submitted, hist, probed, epc, wpc, wjob, wpayload,
                   wmeta, th, files, ctasks, nfile, dpc, hc, nops, lastop,
                   written, raced, replaced, hits, rlnow, rlLimit, rlWindow,
                   rllog, heap, held, canon, fs, fault, swpc, todo, visited,
                   fs0, nsweep>>

\* DELETE /file/{job_id}, lines 112-113
DeleteEnd ==
    /\ dpc # None
    /\ JobUpdate(dpc[1], DeletedFields("deleted"))
    /\ dpc' = None
    /\ resp' = [resp EXCEPT !.status = 200]
    /\ UNCHANGED <<mode, queue, rqueue, nextId, clock, returned, expired,
                   submitted, probed, epc, wpc, wjob, wpayload, wmeta, th,
                   files, ctasks, nfile, hc, nops, lastop, written, raced,
                   replaced, hits, rlnow, rlLimit, rlWindow, rllog, heap,
                   held, canon, fs, fault, swpc, todo, visited, fs0, nsweep>>

\* periodic_cleanup (memory mode, between handlers): a sweep finds a path
\* under settings.tmp_dir older than the TTL and deletes it.  Ages are not
\* kept here: any file may have become old.
SweepArtifact(path) ==
    /\ mode = "memory"
    /\ ApiFree
    /\ path \in DOMAIN files
    /\ files' = RemoveFile(files, path)
    /\ UNCHANGED <<mode, jobs, queue, redis, rqueue, nextId, clock, returned,
                   expired, submitted, hist, probed, epc, wpc, wjob, wpayload,
                   wmeta, th, ctasks, nfile, dpc, hc, nops, lastop, written,
                   raced, replaced, hits, rlnow, rlLimit, rlWindow, rllog,
                   heap, held, canon, fs, fault, swpc, todo, visited, fs0,
                   nsweep, resp>>

\* ------------------------------------------------------------------ Redis
\* One unit of time passes in Redis: every key's TTL drops by one and the
\* keys that reach zero are gone.
RedisTick ==
    /\ mode = "rq"
    /\ DOMAIN redis # {}
    /\ redis' = [k \in {x \in DOMAIN redis : redis[x].ttl > 1} |->
                    [redis[k] EXCEPT !.ttl = @ - 1]]
    /\ expired' = expired \cup {k[2] : k \in DOMAIN redis \ DOMAIN redis'}
    /\ UNCHANGED <<mode, jobs, queue, rqueue, nextId, clock, returned,
                   submitted, hist, probed, epc, wpc, wjob, wpayload, wmeta,
                   th, files, ctasks, nfile, dpc, hc, nops, lastop, written,
                   raced, replaced, hits, rlnow, rlLimit, rlWindow, rllog,
                   heap, held, canon, fs, fault, swpc, todo, visited, fs0,
                   nsweep, resp>>

\* ------------------------------------------------------------------ Spec
harnessVars == <<hc, nops, lastop, written, raced, replaced>>
limiterVars == <<hits, rlnow, rlLimit, rlWindow, rllog>>
readVars == <<heap, held, canon>>
sweepVars == <<fs, fault, swpc, todo, visited, fs0, nsweep>>
vars == <<storeVars, procVars, harnessVars, limiterVars, readVars, sweepVars,
          resp>>

Next ==
    \/ \E payload \in Payloads : MemEnqueue(payload)
    \/ \E payload \in Payloads : RqEnqueueWrite(payload)
    \/ RqEnqueuePush
    \/ WorkerPickup
    \/ PipelineStart
    \/ PipelineProbe
    \/ PipelineCheck
    \/ \E done \in 0..MaxBytes, total \in 0..MaxBytes : HookRead(done, total)
    \/ HookWrite
    \/ HookNoTotal
    \/ TransferReturn
    \/ PipelineAfterDownload
    \/ PipelineConvert
    \/ \E job_id \in Ids : FileRequest(job_id)
    \/ \E job_id \in Ids : FileNotReady(job_id)
    \/ \E i \in DOMAIN ctasks : CleanupDelete(i)
    \/ \E i \in DOMAIN ctasks : CleanupRead(i)
    \/ \E i \in DOMAIN ctasks : CleanupWrite(i)
    \/ \E job_id \in Ids : DeleteBegin(job_id)
    \/ \E job_id \in Ids : DeleteRaises(job_id)
    \/ DeleteEnd
    \/ \E path \in DOMAIN files : SweepArtifact(path)
    \/ RedisTick

Spec == Init /\ [][Next]_vars

\* What the scheduling guarantees: a background task handed to the thread
\* pool runs each of its steps, a handler that has started runs to its end,
\* and the periodic sweep comes round.
Fairness ==
    /\ \A i \in 1..MaxFileReq :
          /\ WF_vars(i \in DOMAIN ctasks /\ CleanupDelete(i))
          /\ WF_vars(i \in DOMAIN ctasks /\ CleanupRead(i))
          /\ WF_vars(i \in DOMAIN ctasks /\ CleanupWrite(i))
    /\ WF_vars(DeleteEnd)
    /\ WF_vars(\E path \in DOMAIN files : SweepArtifact(path))

SpecLive == Spec /\ Fairness

\* One step of the worker coroutine: start_worker's loop and the pipeline it
\* awaits.  Its position (wpc) enables one of them at a time.
WorkerStep ==
    \/ WorkerPickup
    \/ PipelineStart
    \/ PipelineRaises
    \/ PipelineProbe
    \/ PipelineCheck
    \/ PipelineAfterDownload
    \/ PipelineConvert

\* The transfer thread finishes a callback's update it has begun, and
\* download_video returns or raises.
TransferStep == HookWrite \/ TransferReturn

\* The event loop keeps running the worker task, and every external
\* operation (probe, transfer, transcode) returns or raises.
WorkerFairness == WF_vars(WorkerStep) /\ WF_vars(TransferStep)

\* The application with the in-memory backend (main.py, lines 62-74): job
\* creation, the worker and its transfer thread, the deletion handler and
\* the periodic sweep, all on one event loop.
InitWorker == mode = "memory" /\ Constructed /\ LimiterIdle /\ SweeperIdle

NextWorker ==
    \/ \E payload \in WorkerPayloads : MemEnqueue(payload)
    \/ WorkerStep
    \/ \E done \in 0..MaxBytes, total \in 0..MaxBytes : HookRead(done, total)
    \/ HookNoTotal
    \/ TransferStep
    \/ \E job_id \in Ids : DeleteBegin(job_id)
    \/ DeleteEnd
    \/ \E path \in DOMAIN files : SweepArtifact(path)

SpecWorker ==
    /\ InitWorker
    /\ [][NextWorker]_vars
    /\ WF_vars(DeleteEnd)
    /\ WorkerFairness

\* Variant of DeleteNotFound for a deletion that takes any record: the job
\* is marked deleted whatever its status.
DeleteNotFoundCancels(job_id) ==
    /\ ApiFree
    /\ ~HasResult(JobStatus(job_id))
    /\ JobUpdate(job_id, DeletedFields("deleted"))
    /\ resp' = Answer("DELETE /file", 200, job_id, None)
    /\ UNCHANGED <<mode, queue, rqueue, nextId, clock, returned, expired,
                   submitted, probed, epc, wpc, wjob, wpayload, wmeta, th,
                   files, ctasks, nfile, dpc, hc, nops, lastop, written,
                   raced, replaced, hits, rlnow, rlLimit, rlWindow, rllog,
                   heap, held, canon, fs, fault, swpc, todo, visited, fs0,
                   nsweep>>

\* DELETE /file/{job_id}, lines 102-104: no record, or a record without a
\* result: 404, and nothing else happens.
DeleteNotFound(job_id) ==
    /\ ApiFree
    /\ ~HasResult(JobStatus(job_id))
    /\ resp' = Answer("DELETE /file", 404, job_id, None)
    /\ UNCHANGED <<mode, jobs, queue, redis, rqueue, nextId, clock, returned,
                   expired, submitted, hist, probed, epc, wpc, wjob, wpayload,
                   wmeta, th, files, ctasks, nfile, dpc, hc, nops, lastop,
                   written, raced, replaced, hits, rlnow, rlLimit, rlWindow,
                   rllog, heap, held, canon, fs, fault, swpc, todo, visited,
                   fs0, nsweep>>

\* The application with deletion requests for every id, whatever its record.
NextDelete == Next \/ \E job_id \in Ids : DeleteNotFound(job_id)

SpecDelete == Init /\ [][NextDelete]_vars

\* Variant of Shutdown with a handler that marks the job in flight as failed
\* before the cancellation goes on.
ShutdownMarksError ==
    /\ mode = "memory"
    /\ epc = None
    /\ dpc = None
    /\ wpc \in {"wait", "download"}
    /\ IF wpc = "download"
       THEN JobUpdate(wjob, [status |-> "error", message |-> "cancelled",
                             error |-> Some("cancelled")])
       ELSE UNCHANGED <<jobs, redis, hist>>
    /\ wpc' = "cancelled"
    /\ UNCHANGED <<mode, queue, rqueue, nextId, clock, returned, expired,
                   submitted, probed, epc, wjob, wpayload, wmeta, th, files,
                   ctasks, nfile, dpc, hc, nops, lastop, written, raced,
                   replaced, hits, rlnow, rlLimit, rlWindow, rllog, heap,
                   held, canon, fs, fault, swpc, todo, visited, fs0, nsweep,
                   resp>>

\* lifespan, lines 76-82: on shutdown the worker task and the sweeper are
\* cancelled.  The event loop runs this only while the worker is suspended,
\* at queue.get() or at the await of the transfer thread.  CancelledError is
\* not an Exception: neither the pipeline's handler (worker.py line 119) nor
\* the loop's (main.py line 44) catches it, and the task ends.  The transfer
\* thread is not stopped and its callbacks go on writing.
Shutdown ==
    /\ mode = "memory"
    /\ epc = None
    /\ dpc = None
    /\ wpc \in {"wait", "download"}
    /\ wpc' = "cancelled"
    /\ UNCHANGED <<mode, jobs, queue, redis, rqueue, nextId, clock, returned,
                   expired, submitted, hist, probed, epc, wjob, wpayload,
                   wmeta, th, files, ctasks, nfile, dpc, hc, nops, lastop,
                   written, raced, replaced, hits, rlnow, rlLimit, rlWindow,
                   rllog, heap, held, canon, fs, fault, swpc, todo, visited,
                   fs0, nsweep, resp>>

\* The in-memory application up to and after its shutdown.
NextShutdown == NextWorker \/ Shutdown

SpecShutdown == InitWorker /\ [][NextShutdown]_vars

\* --------------------------------------------------- the store in the open
\* The lifecycle layer and the two backends as a library: jobs are created,
\* and callers in different execution contexts (threads of one process in
\* memory mode, processes in rq mode) call job_update, run_job.update and the
\* backend's set on the ids they were given, in any interleaving.  An update
\* is a read of the record followed by a write of the whole record, and
\* nothing keeps another caller from running between the two.
Callers == 1..MaxCallers

\* The fields an update names.
UpdateFields ==
    {[meta |-> Some("X")], [progress |-> 50],
     [status |-> "fetching", progress |-> 5]}

\* The dicts handed to the backend's set directly.
SetData == {[progress |-> 50], [status |-> "done", progress |-> 100]}

StorePayloads ==
    {[url |-> "https://youtu.be/v", quality |-> "720p", format |-> f] :
        f \in {"mp4", "mp3"}}

StoreCreateMem(payload) ==
    /\ mode = "memory"
    /\ nextId <= MaxStoreJobs
    /\ MemoryBackendEnqueue(payload)
    /\ UNCHANGED <<mode, redis, rqueue, clock, expired, probed, epc, wpc,
                   wjob, wpayload, wmeta, th, files, ctasks, nfile, dpc, hc,
                   nops, lastop, written, raced, replaced, hits, rlnow,
                   rlLimit, rlWindow, rllog, heap, held, canon, fs, fault,
                   swpc, todo, visited, fs0, nsweep, resp>>

StoreCreateRqWrite(payload) ==
    /\ mode = "rq"
    /\ epc = None
    /\ nextId <= MaxStoreJobs
    /\ RQBackendEnqueueWrite(payload)
    /\ UNCHANGED <<mode, jobs, queue, rqueue, clock, returned, expired,
                   probed, wpc, wjob, wpayload, wmeta, th, files, ctasks,
                   nfile, dpc, hc, nops, lastop, written, raced, replaced,
                   hits, rlnow, rlLimit, rlWindow, rllog, heap, held, canon,
                   fs, fault, swpc, todo, visited, fs0, nsweep, resp>>

StoreCreateRqPush ==
    /\ mode = "rq"
    /\ epc # None
    /\ RQBackendEnqueuePush
    /\ UNCHANGED <<mode, jobs, queue, redis, nextId, clock, expired,
                   submitted, hist, probed, wpc, wjob, wpayload, wmeta, th,
                   files, ctasks, nfile, dpc, hc, nops, lastop, written,
                   raced, replaced, hits, rlnow, rlLimit, rlWindow, rllog,
                   heap, held, canon, fs, fault, swpc, todo, visited, fs0,
                   nsweep, resp>>

\* The other callers that read `job_id` and have not written yet now hold a
\* stale record.
MarkStale(h, c, job_id) ==
    [d \in Callers |->
        IF d = c THEN CallerIdle
        ELSE IF h[d].pc = "got" /\ h[d].job_id = job_id
             THEN [h[d] EXCEPT !.stale = TRUE]
             ELSE h[d]]

\* job_update line 54 / run_job.update line 135: the read
CallerRead(c, kind, job_id, fields) ==
    /\ hc[c].pc = "idle"
    /\ nops < MaxOps
    /\ job_id \in {returned[i] : i \in DOMAIN returned}
    /\ kind = "run_job.update" => mode = "rq"
    /\ hc' = [hc EXCEPT ![c] = [pc |-> "got", kind |-> kind,
                                job_id |-> job_id, fields |-> fields,
                                cur |-> GetOrEmpty(job_id),
                                stale |-> FALSE]]
    /\ nops' = nops + 1
    /\ UNCHANGED <<mode, jobs, queue, redis, rqueue, nextId, clock, returned,
                   expired, submitted, hist, probed, epc, wpc, wjob, wpayload,
                   wmeta, th, files, ctasks, nfile, dpc, lastop, written,
                   raced, replaced, hits, rlnow, rlLimit, rlWindow, rllog,
                   heap, held, canon, fs, fault, swpc, todo, visited, fs0,
                   nsweep, resp>>

\* The record an update stores, given the record it read.
UpdateData(kind, current, job_id, fields, now) ==
    IF kind = "job_update"
    THEN JobUpdateData(current, job_id, fields, now)
    ELSE RunJobUpdateData(current, fields)

\* job_update lines 55-58 / run_job.update lines 136-137: the write
CallerWrite(c) ==
    /\ hc[c].pc = "got"
    /\ LET x == hc[c]
           old == IF x.job_id \in DOMAIN written THEN written[x.job_id]
                  ELSE EmptyDict
       IN /\ BackendSet(x.job_id,
                        UpdateData(x.kind, x.cur, x.job_id, x.fields, clock))
          /\ lastop' = [kind |-> x.kind, job_id |-> x.job_id,
                        fields |-> x.fields, pre |-> BackendGet(x.job_id),
                        stale |-> x.stale, at |-> clock]
          /\ written' = SetItem(written, x.job_id, DictUpdate(old, x.fields))
          /\ raced' = IF x.stale THEN raced \cup {x.job_id} ELSE raced
          /\ hc' = MarkStale(hc, c, x.job_id)
    /\ UNCHANGED <<mode, queue, rqueue, nextId, clock, returned, expired,
                   submitted, probed, epc, wpc, wjob, wpayload, wmeta, th,
                   files, ctasks, nfile, dpc, nops, replaced, hits, rlnow,
                   rlLimit, rlWindow, rllog, heap, held, canon, fs, fault,
                   swpc, todo, visited, fs0, nsweep, resp>>

\* backend.set(job_id, data) called with a dict of the caller's own
DirectSet(job_id, data) ==
    /\ nops < MaxOps
    /\ job_id \in {returned[i] : i \in DOMAIN returned}
    /\ BackendSet(job_id, data)
    /\ lastop' = [kind |-> "set", job_id |-> job_id, fields |-> data,
                  pre |-> BackendGet(job_id), stale |-> FALSE, at |-> clock]
    /\ replaced' = replaced \cup {job_id}
    /\ hc' = MarkStale(hc, 0, job_id)
    /\ nops' = nops + 1
    /\ UNCHANGED <<mode, queue, rqueue, nextId, clock, returned, expired,
                   submitted, probed, epc, wpc, wjob, wpayload, wmeta, th,
                   files, ctasks, nfile, dpc, written, raced, hits, rlnow,
                   rlLimit, rlWindow, rllog, heap, held, canon, fs, fault,
                   swpc, todo, visited, fs0, nsweep, resp>>

\* time.time() advances
StoreTick ==
    /\ clock < MaxClock
    /\ clock' = clock + 1
    /\ UNCHANGED <<mode, jobs, queue, redis, rqueue, nextId, returned,
                   expired, submitted, hist, probed, epc, wpc, wjob, wpayload,
                   wmeta, th, files, ctasks, nfile, dpc, hc, nops, lastop,
                   written, raced, replaced, hits, rlnow, rlLimit, rlWindow,
                   rllog, heap, held, canon, fs, fault, swpc, todo, visited,
                   fs0, nsweep, resp>>

NextStore ==
    \/ \E payload \in StorePayloads : StoreCreateMem(payload)
    \/ \E payload \in StorePayloads : StoreCreateRqWrite(payload)
    \/ StoreCreateRqPush
    \/ \E c \in Callers, kind \in {"job_update", "run_job.update"},
          job_id \in Ids, fields \in UpdateFields :
            CallerRead(c, kind, job_id, fields)
    \/ \E c \in Callers : CallerWrite(c)
    \/ \E job_id \in Ids, data \in SetData : DirectSet(job_id, data)
    \/ StoreTick

SpecStore == Init /\ [][NextStore]_vars

\* ------------------------------------------------ the two backends abreast
\* One sequence of operations applied to a MemoryBackend (jobs, queue) and to
\* an RQBackend (redis, rqueue) at once, each new job getting the same id on
\* both sides; the pipeline's update callback is the one each mode hands to
\* process_job_async.  No key expires.  `mode` is not read here.
OrEmpty(opt) == IF Falsy(opt) THEN EmptyDict ELSE opt[1]

\* The dicts handed to set: a partial record, a full one, the empty dict.
PairData == SetData \cup {EmptyDict}

\* enqueue(payload) on both
PairEnqueue(payload) ==
    /\ nextId <= MaxStoreJobs
    /\ jobs' = MemSet(jobs, nextId, InitialRecord(nextId, payload, clock))
    /\ queue' = Append(queue, nextId)
    /\ redis' = RqSet(redis, nextId, InitialRecord(nextId, payload, clock))
    /\ rqueue' = Append(rqueue, nextId)
    /\ returned' = Append(returned, nextId)
    /\ nextId' = nextId + 1
    /\ UNCHANGED <<mode, clock, expired, submitted, hist, probed, epc, wpc,
                   wjob, wpayload, wmeta, th, files, ctasks, nfile, dpc, hc,
                   nops, lastop, written, raced, replaced, hits, rlnow,
                   rlLimit, rlWindow, rllog, heap, held, canon, fs, fault,
                   swpc, todo, visited, fs0, nsweep, resp>>

\* set(job_id, data) on both
PairSet(job_id, data) ==
    /\ job_id \in {returned[i] : i \in DOMAIN returned}
    /\ nops < MaxOps
    /\ nops' = nops + 1
    /\ jobs' = MemSet(jobs, job_id, data)
    /\ redis' = RqSet(redis, job_id, data)
    /\ UNCHANGED <<mode, queue, rqueue, nextId, clock, returned, expired,
                   submitted, hist, probed, epc, wpc, wjob, wpayload, wmeta,
                   th, files, ctasks, nfile, dpc, hc, lastop, written, raced,
                   replaced, hits, rlnow, rlLimit, rlWindow, rllog, heap,
                   held, canon, fs, fault, swpc, todo, visited, fs0, nsweep,
                   resp>>

\* One write of the pipeline: start_worker.updater (job_update) over the
\* memory backend, run_job.update over the rq backend.
PairUpdate(job_id, fields) ==
    /\ job_id \in {returned[i] : i \in DOMAIN returned}
    /\ nops < MaxOps
    /\ nops' = nops + 1
    /\ jobs' = MemSet(jobs, job_id,
                      JobUpdateData(OrEmpty(MemGet(jobs, job_id)), job_id,
                                    fields, clock))
    /\ redis' = RqSet(redis, job_id,
                      RunJobUpdateData(OrEmpty(RqGet(redis, job_id)), fields))
    /\ UNCHANGED <<mode, queue, rqueue, nextId, clock, returned, expired,
                   submitted, hist, probed, epc, wpc, wjob, wpayload, wmeta,
                   th, files, ctasks, nfile, dpc, hc, lastop, written, raced,
                   replaced, hits, rlnow, rlLimit, rlWindow, rllog, heap,
                   held, canon, fs, fault, swpc, todo, visited, fs0, nsweep,
                   resp>>

InitPair ==
    /\ mode = "memory"
    /\ Constructed
    /\ LimiterIdle
    /\ SweeperIdle

NextPair ==
    \/ \E payload \in StorePayloads : PairEnqueue(payload)
    \/ \E job_id \in Ids, data \in PairData : PairSet(job_id, data)
    \/ \E job_id \in Ids, fields \in UpdateFields : PairUpdate(job_id, fields)
    \/ StoreTick

SpecPair == InitPair /\ [][NextPair]_vars

\* --------------------------------------------------- readers of the store
\* The lifecycle layer as its callers see it: create_job, job_status and
\* job_update with or without a configured backend, and what a caller can do
\* with the value job_status returned.  Here the dicts nested in a record are
\* Python objects: `heap` holds them, and a record names one by reference, so
\* that dict(job) - a copy of the top level only - is what it is in Python.
Ref(r) == [ref |-> r]
IsRef(v) == DOMAIN v = {"ref"}

\* The keys of a record whose values are dicts.
NestedKeys == {"payload"}

\* The record with every reference replaced by the object it names.
Deep(h, rec) ==
    [k \in DOMAIN rec |->
        IF k \in NestedKeys /\ IsRef(rec[k]) THEN h[rec[k].ref] ELSE rec[k]]

\* Variant of BackendMissing under which the lifecycle layer never finds the
\* backend missing.
BackendMissingNever == FALSE

\* `if _backend is None`
BackendMissing == mode = "none"

Raised(op) == [op |-> op, job_id |-> 0, raised |-> TRUE, mut |-> FALSE,
               value |-> None]
Returned(op, job_id, value) ==
    [op |-> op, job_id |-> job_id, raised |-> FALSE, mut |-> FALSE,
     value |-> value]

\* create_job, job_status, job_update without a backend: RuntimeError
ReadRaises(op) ==
    /\ BackendMissing
    /\ held' = Raised(op)
    /\ UNCHANGED <<mode, jobs, queue, redis, rqueue, nextId, clock, returned,
                   expired, submitted, hist, probed, epc, wpc, wjob, wpayload,
                   wmeta, th, files, ctasks, nfile, dpc, hc, nops, lastop,
                   written, raced, replaced, hits, rlnow, rlLimit, rlWindow,
                   rllog, heap, canon, fs, fault, swpc, todo, visited, fs0,
                   nsweep, resp>>

\* create_job(payload) over the memory backend: the record keeps the caller's
\* payload object.
ReadCreateMem(payload) ==
    /\ ~BackendMissing
    /\ mode = "memory"
    /\ nextId \in 1..MaxStoreJobs
    /\ heap' = Append(heap, payload)
    /\ MemoryBackendEnqueue(Ref(Len(heap) + 1))
    /\ canon' = SetItem(canon, nextId, InitialRecord(nextId, payload, clock))
    /\ held' = Returned("create_job", nextId, None)
    /\ UNCHANGED <<mode, redis, rqueue, clock, expired, probed, epc, wpc,
                   wjob, wpayload, wmeta, th, files, ctasks, nfile, dpc, hc,
                   nops, lastop, written, raced, replaced, hits, rlnow,
                   rlLimit, rlWindow, rllog, fs, fault, swpc, todo, visited,
                   fs0, nsweep, resp>>

\* create_job(payload) over the rq backend: json.dumps writes the payload out.
ReadCreateRqWrite(payload) ==
    /\ ~BackendMissing
    /\ mode = "rq"
    /\ epc = None
    /\ nextId \in 1..MaxStoreJobs
    /\ RQBackendEnqueueWrite(payload)
    /\ canon' = SetItem(canon, nextId, InitialRecord(nextId, payload, clock))
    /\ UNCHANGED <<mode, jobs, queue, rqueue, clock, returned, expired,
                   probed, wpc, wjob, wpayload, wmeta, th, files, ctasks,
                   nfile, dpc, hc, nops, lastop, written, raced, replaced,
                   hits, rlnow, rlLimit, rlWindow, rllog, heap, held, fs,
                   fault, swpc, todo, visited, fs0, nsweep, resp>>

ReadCreateRqPush ==
    /\ mode = "rq"
    /\ epc # None
    /\ RQBackendEnqueuePush
    /\ held' = Returned("create_job", epc[1], None)
    /\ UNCHANGED <<mode, jobs, queue, redis, nextId, clock, expired,
                   submitted, hist, probed, wpc, wjob, wpayload, wmeta, th,
                   files, ctasks, nfile, dpc, hc, nops, lastop, written,
                   raced, replaced, hits, rlnow, rlLimit, rlWindow, rllog,
                   heap, canon, fs, fault, swpc, todo, visited, fs0, nsweep,
                   resp>>

\* job_status(job_id) with a backend: None, or dict(job).  The memory backend
\* hands out the objects the record holds; json.loads builds new ones.
ReadStatus(job_id) ==
    /\ ~BackendMissing
    /\ epc = None
    /\ nops < MaxReadOps
    /\ nops' = nops + 1
    /\ LET got == JobStatus(job_id)
       IN IF got = None
          THEN /\ held' = Returned("job_status", job_id, None)
               /\ heap' = heap
          ELSE IF mode = "memory"
          THEN /\ held' = Returned("job_status", job_id, got)
               /\ heap' = heap
          ELSE /\ heap' = Append(heap, got[1]["payload"])
               /\ held' = Returned("job_status", job_id,
                     Some(SetItem(got[1], "payload", Ref(Len(heap) + 1))))
    /\ UNCHANGED <<mode, jobs, queue, redis, rqueue, nextId, clock, returned,
                   expired, submitted, hist, probed, epc, wpc, wjob, wpayload,
                   wmeta, th, files, ctasks, nfile, dpc, hc, lastop, written,
                   raced, replaced, hits, rlnow, rlLimit, rlWindow, rllog,
                   canon, fs, fault, swpc, todo, visited, fs0, nsweep, resp>>

HeldRecord == held.op = "job_status" /\ held.value # None

\* The caller assigns to a key of the dict it was given.
ReadMutateTop(key, v) ==
    /\ HeldRecord
    /\ nops < MaxReadOps
    /\ nops' = nops + 1
    /\ held' = [held EXCEPT !.mut = TRUE, !.value = Some(SetItem(@[1], key, v))]
    /\ UNCHANGED <<mode, jobs, queue, redis, rqueue, nextId, clock, returned,
                   expired, submitted, hist, probed, epc, wpc, wjob, wpayload,
                   wmeta, th, files, ctasks, nfile, dpc, hc, lastop, written,
                   raced, replaced, hits, rlnow, rlLimit, rlWindow, rllog,
                   heap, canon, fs, fault, swpc, todo, visited, fs0, nsweep,
                   resp>>

\* The caller assigns to a key of the payload of the dict it was given.
ReadMutateNested(key, v) ==
    /\ HeldRecord
    /\ nops < MaxReadOps
    /\ nops' = nops + 1
    /\ held' = [held EXCEPT !.mut = TRUE]
    /\ LET r == held.value[1]["payload"].ref
       IN heap' = [heap EXCEPT ![r] = SetItem(@, key, v)]
    /\ UNCHANGED <<mode, jobs, queue, redis, rqueue, nextId, clock, returned,
                   expired, submitted, hist, probed, epc, wpc, wjob, wpayload,
                   wmeta, th, files, ctasks, nfile, dpc, hc, lastop, written,
                   raced, replaced, hits, rlnow, rlLimit, rlWindow, rllog,
                   canon, fs, fault, swpc, todo, visited, fs0, nsweep, resp>>

InitRead ==
    /\ mode \in {"none", "memory", "rq"}
    /\ Constructed
    /\ LimiterIdle
    /\ SweeperIdle

NextRead ==
    \/ \E op \in {"create_job", "job_status", "job_update"} : ReadRaises(op)
    \/ \E payload \in StorePayloads : ReadCreateMem(payload)
    \/ \E payload \in StorePayloads : ReadCreateRqWrite(payload)
    \/ ReadCreateRqPush
    \/ \E job_id \in 1..(MaxStoreJobs + 1) : ReadStatus(job_id)
    \/ \E key \in {"status", "message"} : ReadMutateTop(key, "x")
    \/ \E key \in {"url", "format"} : ReadMutateNested(key, "x")

SpecRead == InitRead /\ [][NextRead]_vars

\* ------------------------------------------------------- the rate limiter
\* Variant of HitsOf with one list for all identifiers.
HitsOfShared(h, identifier) ==
    IF DOMAIN h # {} THEN h[CHOOSE k \in DOMAIN h : TRUE] ELSE <<>>

\* ratelimit._hits[identifier]: a defaultdict(list)
HitsOf(h, identifier) == IF identifier \in DOMAIN h THEN h[identifier] ELSE <<>>

\* Variant of DropOld that also drops an event exactly `window` old.
RECURSIVE DropOldInclusive(_, _, _)
DropOldInclusive(q, now, window) ==
    IF q # <<>> /\ now - q[1] >= window
    THEN DropOldInclusive(Tail(q), now, window)
    ELSE q

\* allow, lines 20-21: while queue and now - queue[0] > window: queue.pop(0)
RECURSIVE DropOld(_, _, _)
DropOld(q, now, window) ==
    IF q # <<>> /\ now - q[1] > window
    THEN DropOld(Tail(q), now, window)
    ELSE q

\* allow, lines 23-27: the value returned for the pruned list
AllowReturns(q, limit) == ~(Len(q) >= limit)

\* One call of allow(identifier, limit=rlLimit, window=rlWindow) at the
\* current reading of time.time().
Allow(identifier) ==
    /\ Len(rllog) < MaxCalls
    /\ LET before == HitsOf(hits, identifier)
           q == DropOld(before, rlnow, rlWindow)
           ok == AllowReturns(q, rlLimit)
       IN /\ hits' = SetItem(hits, identifier,
                             IF ok THEN Append(q, rlnow) ELSE q)
          /\ rllog' = Append(rllog, [who |-> identifier, at |-> rlnow,
                                     ok |-> ok, before |-> before])
    /\ UNCHANGED <<mode, jobs, queue, redis, rqueue, nextId, clock, returned,
                   expired, submitted, hist, probed, epc, wpc, wjob, wpayload,
                   wmeta, th, files, ctasks, nfile, dpc, hc, nops, lastop,
                   written, raced, replaced, rlnow, rlLimit, rlWindow, heap,
                   held, canon, fs, fault, swpc, todo, visited, fs0, nsweep,
                   resp>>

\* time.time() advances between calls (the readings never go back).
RlTick ==
    /\ rlnow < MaxTime
    /\ rlnow' = rlnow + 1
    /\ UNCHANGED <<mode, jobs, queue, redis, rqueue, nextId, clock, returned,
                   expired, submitted, hist, probed, epc, wpc, wjob, wpayload,
                   wmeta, th, files, ctasks, nfile, dpc, hc, nops, lastop,
                   written, raced, replaced, hits, rlLimit, rlWindow, rllog,
                   heap, held, canon, fs, fault, swpc, todo, visited, fs0,
                   nsweep, resp>>

\* The limiter alone, for every limit and window up to the bounds.
InitRL ==
    /\ ProgramInit
    /\ hits = <<>>
    /\ rlnow = 0
    /\ rllog = <<>>
    /\ rlLimit \in 1..MaxLimit
    /\ rlWindow \in 1..MaxWindow
    /\ SweeperIdle

NextRL ==
    \/ \E identifier \in Identities : Allow(identifier)
    \/ RlTick

SpecRL == InitRL /\ [][NextRL]_vars

\* ---------------------------------------------------------- POST /download
\* A URL is its scheme and the labels of its host name.
Url(scheme, host) == [scheme |-> scheme, host |-> host]

\* settings.allowed_domains
AllowedDomains == {<<"youtube", "com">>, <<"youtu", "be">>, <<"tiktok", "com">>}

\* host == d or host.endswith("." + d)
HostMatches(host, d) ==
    \/ host = d
    \/ /\ Len(host) > Len(d)
       /\ SubSeq(host, Len(host) - Len(d) + 1, Len(host)) = d

\* validate_url: no ValueError
ValidUrl(url) ==
    /\ url.scheme \in {"http", "https"}
    /\ \E d \in AllowedDomains : HostMatches(url.host, d)

\* downloader.QUALITY_PRESETS, DEFAULT_QUALITY and download.SUPPORTED_FORMATS
QUALITY_PRESETS == {"360p", "480p", "720p", "1024p", "1080p"}
DEFAULT_QUALITY == "720p"
\* Variant of SUPPORTED_FORMATS with a format the pipeline does not allow.
SupportedFormatsWider ==
    {"mp4", "webm", "mkv", "mp3", "m4a", "ogg", "source", "avi"}

SUPPORTED_FORMATS == {"mp4", "webm", "mkv", "mp3", "m4a", "ogg", "source"}

\* str.lower() on the format names submitted
Lower(s) == IF s = "MP3" THEN "mp3" ELSE IF s = "MP4" THEN "mp4" ELSE s

Requests ==
    [client : Identities,
     url : {Url("https", <<"www", "youtube", "com">>),
            Url("ftp", <<"youtu", "be">>),
            Url("https", <<"notyoutube", "com">>)},
     quality : {"auto", "4k"},
     format : {"MP3", "avi"}]

\* create_download, lines 31-52: the checks in the order the handler makes
\* them, given what allow returned.
Verdict(req, admitted) ==
    IF ~admitted THEN 429
    ELSE IF Lower(req.format) \notin SUPPORTED_FORMATS THEN 400
    ELSE IF req.quality \notin QUALITY_PRESETS /\ req.quality # "auto" THEN 400
    ELSE IF ~ValidUrl(req.url) THEN 400
    ELSE 200

\* Variant of ReachesCreate under which the handler goes on to create_job
\* whatever the checks said.
ReachesCreateAlways(verdict) == TRUE

\* Every failed check raises HTTPException, which ends the handler before
\* create_job.
ReachesCreate(verdict) == verdict = 200

\* create_download, lines 47 and 54-60: the payload handed to create_job
PayloadFor(req) ==
    [url |-> req.url,
     quality |-> IF req.quality = "auto" THEN DEFAULT_QUALITY ELSE req.quality,
     format |-> Lower(req.format)]

\* allow(client_ip) inside the handler: the pruned list, and the answer
Pruned(req) == DropOld(HitsOf(hits, req.client), rlnow, rlWindow)
Admitted(req) == AllowReturns(Pruned(req), rlLimit)
HitsAfter(req) ==
    SetItem(hits, req.client,
            IF Admitted(req) THEN Append(Pruned(req), rlnow) ELSE Pruned(req))

Response(op, status, job_id) ==
    [op |-> op, status |-> status, job_id |-> job_id]

\* create_download over the memory backend, from the request to the response
CreateDownloadMem(req) ==
    /\ mode = "memory"
    /\ LET verdict == Verdict(req, Admitted(req))
       IN /\ hits' = HitsAfter(req)
          /\ IF ReachesCreate(verdict)
             THEN /\ nextId <= MaxStoreJobs
                  /\ MemoryBackendEnqueue(PayloadFor(req))
             ELSE UNCHANGED <<jobs, queue, returned, submitted, hist, nextId>>
          /\ resp' = Response("POST /download", verdict,
                        IF verdict = 200 THEN Some(nextId) ELSE None)
    /\ UNCHANGED <<mode, redis, rqueue, clock, expired, probed, epc, wpc,
                   wjob, wpayload, wmeta, th, files, ctasks, nfile, dpc, hc,
                   nops, lastop, written, raced, replaced, rlnow, rlLimit,
                   rlWindow, rllog, heap, held, canon, fs, fault, swpc, todo,
                   visited, fs0, nsweep>>

\* create_download over the rq backend: a request that fails a check
CreateDownloadRqRejected(req) ==
    /\ mode = "rq"
    /\ epc = None
    /\ ~ReachesCreate(Verdict(req, Admitted(req)))
    /\ hits' = HitsAfter(req)
    /\ resp' = Response("POST /download", Verdict(req, Admitted(req)), None)
    /\ UNCHANGED <<mode, jobs, queue, redis, rqueue, nextId, clock, returned,
                   expired, submitted, hist, probed, epc, wpc, wjob, wpayload,
                   wmeta, th, files, ctasks, nfile, dpc, hc, nops, lastop,
                   written, raced, replaced, rlnow, rlLimit, rlWindow, rllog,
                   heap, held, canon, fs, fault, swpc, todo, visited, fs0,
                   nsweep>>

\* ... a request that passes them: the record is written
CreateDownloadRqWrite(req) ==
    /\ mode = "rq"
    /\ epc = None
    /\ ReachesCreate(Verdict(req, Admitted(req)))
    /\ nextId <= MaxStoreJobs
    /\ hits' = HitsAfter(req)
    /\ RQBackendEnqueueWrite(PayloadFor(req))
    /\ resp' = NoResponse
    /\ UNCHANGED <<mode, jobs, queue, rqueue, clock, returned, expired,
                   probed, wpc, wjob, wpayload, wmeta, th, files, ctasks,
                   nfile, dpc, hc, nops, lastop, written, raced, replaced,
                   rlnow, rlLimit, rlWindow, rllog, heap, held, canon, fs,
                   fault, swpc, todo, visited, fs0, nsweep>>

\* ... the work item is queued and the id is returned
CreateDownloadRqPush ==
    /\ mode = "rq"
    /\ epc # None
    /\ RQBackendEnqueuePush
    /\ resp' = Response("POST /download", 200, epc)
    /\ UNCHANGED <<mode, jobs, queue, redis, nextId, clock, expired,
                   submitted, hist, probed, wpc, wjob, wpayload, wmeta, th,
                   files, ctasks, nfile, dpc, hc, nops, lastop, written,
                   raced, replaced, hits, rlnow, rlLimit, rlWindow, rllog,
                   heap, held, canon, fs, fault, swpc, todo, visited, fs0,
                   nsweep>>

NextSubmit ==
    \/ \E req \in Requests : CreateDownloadMem(req)
    \/ \E req \in Requests : CreateDownloadRqRejected(req)
    \/ \E req \in Requests : CreateDownloadRqWrite(req)
    \/ CreateDownloadRqPush
    \/ RlTick

SpecSubmit == Init /\ [][NextSubmit]_vars

\* ------------------------------------------- submission and the pipeline
\* The URL strings submitted here, and what urlparse makes of them
\* (validate_url, lines 37-41): the empty string has no scheme and no host.
UrlStrings == {"", "https://youtu.be/v", "https://evil.example/v"}

UrlParse(s) ==
    IF s = "https://youtu.be/v" THEN Url("https", <<"youtu", "be">>)
    ELSE IF s = "https://evil.example/v"
         THEN Url("https", <<"evil", "example">>)
         ELSE Url("", <<>>)

\* The requests of one client: url, quality and format as query strings.
Submissions ==
    [client : {1},
     url : UrlStrings,
     quality : {"auto", "1080p", "4k"},
     format : {"MP3", "source", "avi"}]

\* The request as the checks of create_download see it.
Parsed(req) == [req EXCEPT !.url = UrlParse(req.url)]

ServeVerdict(req) == Verdict(Parsed(req), Admitted(req))

\* create_download over the memory backend, on the event loop it shares
\* with the worker
ServeMem(req) ==
    /\ mode = "memory"
    /\ ApiFree
    /\ hits' = HitsAfter(req)
    /\ IF ReachesCreate(ServeVerdict(req))
       THEN /\ nextId \in Creatable
            /\ MemoryBackendEnqueue(PayloadFor(req))
       ELSE UNCHANGED <<jobs, queue, returned, submitted, hist, nextId>>
    /\ resp' = Response("POST /download", ServeVerdict(req),
                  IF ServeVerdict(req) = 200 THEN Some(nextId) ELSE None)
    /\ UNCHANGED <<mode, redis, rqueue, clock, expired, probed, epc, wpc,
                   wjob, wpayload, wmeta, th, files, ctasks, nfile, dpc, hc,
                   nops, lastop, written, raced, replaced, rlnow, rlLimit,
                   rlWindow, rllog, heap, held, canon, fs, fault, swpc, todo,
                   visited, fs0, nsweep>>

\* create_download over the rq backend: a request that fails a check
ServeRqRejected(req) ==
    /\ mode = "rq"
    /\ ApiFree
    /\ ~ReachesCreate(ServeVerdict(req))
    /\ hits' = HitsAfter(req)
    /\ resp' = Response("POST /download", ServeVerdict(req), None)
    /\ UNCHANGED <<mode, jobs, queue, redis, rqueue, nextId, clock, returned,
                   expired, submitted, hist, probed, epc, wpc, wjob, wpayload,
                   wmeta, th, files, ctasks, nfile, dpc, hc, nops, lastop,
                   written, raced, replaced, rlnow, rlLimit, rlWindow, rllog,
                   heap, held, canon, fs, fault, swpc, todo, visited, fs0,
                   nsweep>>

\* ... a request that passes them: the record is written
ServeRqWrite(req) ==
    /\ mode = "rq"
    /\ ApiFree
    /\ ReachesCreate(ServeVerdict(req))
    /\ nextId \in Creatable
    /\ hits' = HitsAfter(req)
    /\ RQBackendEnqueueWrite(PayloadFor(req))
    /\ resp' = NoResponse
    /\ UNCHANGED <<mode, jobs, queue, rqueue, clock, returned, expired,
                   probed, wpc, wjob, wpayload, wmeta, th, files, ctasks,
                   nfile, dpc, hc, nops, lastop, written, raced, replaced,
                   rlnow, rlLimit, rlWindow, rllog, heap, held, canon, fs,
                   fault, swpc, todo, visited, fs0, nsweep>>

\* The application as its clients drive it: every job comes from
\* create_download, and the worker takes each through the pipeline.
NextServe ==
    \/ \E req \in Submissions : ServeMem(req)
    \/ \E req \in Submissions : ServeRqRejected(req)
    \/ \E req \in Submissions : ServeRqWrite(req)
    \/ CreateDownloadRqPush
    \/ RlTick
    \/ WorkerPickup
    \/ PipelineStart
    \/ PipelineProbe
    \/ PipelineCheck
    \/ TransferReturn
    \/ PipelineAfterDownload
    \/ PipelineConvert

SpecServe == Init /\ [][NextServe]_vars

\* ------------------------------------------------------------ the sweeper
\* periodic_cleanup over settings.tmp_dir.  The directory tree is drawn from
\* one skeleton: two files and a directory with two files.  iterdir lists
\* names in one order.
BaseDir == "temp"
DirPaths == {"temp", "temp/d"}
Nodes == {"temp/a", "temp/d", "temp/d/b", "temp/d/c", "temp/z"}

ChildrenOf(dir) ==
    IF dir = "temp" THEN <<"temp/a", "temp/d", "temp/z">>
    ELSE IF dir = "temp/d" THEN <<"temp/d/b", "temp/d/c">>
    ELSE <<>>

ParentOf(p) == IF p \in {"temp/d/b", "temp/d/c"} THEN "temp/d" ELSE "temp"

\* The operations of the sweeper that reach the file system, per kind of path.
FaultOps(p) ==
    IF p \in DirPaths THEN {"stat", "listdir", "rmdir"} ELSE {"stat", "unlink"}

Faults ==
    {None} \cup {Some([path |-> p, op |-> o]) :
                    p \in Nodes \cup {BaseDir}, o \in {"stat", "listdir",
                                                       "unlink", "rmdir"}}

\* The operation `op` on path `p` raises OSError.
Fails(p, op) == fault = Some([path |-> p, op |-> op])

Exists(f, p) == p = BaseDir \/ p \in DOMAIN f

\* Path.is_dir(): False when the stat behind it fails.
IsDir(f, p) == Exists(f, p) /\ p \in DirPaths /\ ~Fails(p, "stat")

\* Path.is_file()
IsFile(f, p) == Exists(f, p) /\ p \notin DirPaths /\ ~Fails(p, "stat")

\* directory.iterdir()
ListDir(f, dir) == SelectSeq(ChildrenOf(dir), LAMBDA c : c \in DOMAIN f)

Remove(f, p) == [q \in DOMAIN f \ {p} |-> f[q]]

\* The exception that leaves _iter_all_paths when a listing fails.
RaiseMark == "OSError"

RECURSIVE IterAllPaths(_, _)
RECURSIVE IterFrom(_, _)
\* _iter_all_paths, lines 48-51: for each child, the paths below it when it
\* is a directory, then the child itself.
IterFrom(f, children) ==
    IF children = <<>> THEN <<>>
    ELSE LET child == Head(children)
         IN (IF IsDir(f, child) THEN IterAllPaths(f, child) ELSE <<>>)
            \o <<child>> \o IterFrom(f, Tail(children))

IterAllPaths(f, directory) ==
    IF Fails(directory, "listdir") THEN <<RaiseMark>>
    ELSE IterFrom(f, ListDir(f, directory))

RECURSIVE DeletePath(_, _)
RECURSIVE DeleteChildren(_, _)
\* delete_path, lines 23-24
DeleteChildren(f, children) ==
    IF children = <<>> THEN f
    ELSE DeleteChildren(DeletePath(f, Head(children)), Tail(children))

\* delete_path: the tree it leaves.  An OSError ends the call it is raised
\* in and is passed over there.
DeletePath(f, path) ==
    IF IsFile(f, path)
    THEN IF Fails(path, "unlink") THEN f ELSE Remove(f, path)
    ELSE IF Exists(f, path) /\ ~Fails(path, "stat")
         THEN IF Fails(path, "listdir") THEN f
              ELSE LET g == DeleteChildren(f, ListDir(f, path))
                   IN IF ListDir(g, path) # <<>> \/ Fails(path, "rmdir")
                      THEN g ELSE Remove(g, path)
         ELSE f

\* cleanup_expired_files, line 43
Expired(mtime, now) == now - mtime > JobTtlSec

\* periodic_cleanup, line 61, and cleanup_expired_files, lines 33-37: a sweep
\* starts and reads the time: the first one when no path has an st_mtime in
\* the future, each later one an interval after the sweep before it.
SweepStart ==
    /\ swpc = "sleep"
    /\ nsweep < MaxSweeps
    /\ clock' = IF nsweep = 0 THEN MaxMtime ELSE clock + 1
    /\ swpc' = "sweep"
    /\ todo' = IterAllPaths(fs, BaseDir)
    /\ visited' = {}
    /\ fs0' = fs
    /\ UNCHANGED <<mode, jobs, queue, redis, rqueue, nextId, returned,
                   expired, submitted, hist, probed, epc, wpc, wjob, wpayload,
                   wmeta, th, files, ctasks, nfile, dpc, hc, nops, lastop,
                   written, raced, replaced, hits, rlnow, rlLimit, rlWindow,
                   rllog, heap, held, canon, fs, fault, nsweep, resp>>

\* cleanup_expired_files, lines 37-44: the next path is examined.
SweepVisit ==
    /\ swpc = "sweep"
    /\ todo # <<>>
    /\ Head(todo) # RaiseMark
    /\ LET path == Head(todo)
       IN /\ visited' = visited \cup {path}
          /\ fs' = IF path \notin DOMAIN fs \/ Fails(path, "stat") THEN fs
                   ELSE IF Expired(fs[path], clock) THEN DeletePath(fs, path)
                   ELSE fs
    /\ todo' = Tail(todo)
    /\ UNCHANGED <<mode, jobs, queue, redis, rqueue, nextId, clock, returned,
                   expired, submitted, hist, probed, epc, wpc, wjob, wpayload,
                   wmeta, th, files, ctasks, nfile, dpc, hc, nops, lastop,
                   written, raced, replaced, hits, rlnow, rlLimit, rlWindow,
                   rllog, heap, held, canon, fault, swpc, fs0, nsweep, resp>>

\* A listing inside _iter_all_paths raises: the exception leaves
\* cleanup_expired_files and periodic_cleanup, and the task ends.
SweepRaise ==
    /\ swpc = "sweep"
    /\ todo # <<>>
    /\ Head(todo) = RaiseMark
    /\ swpc' = "dead"
    /\ UNCHANGED <<mode, jobs, queue, redis, rqueue, nextId, clock, returned,
                   expired, submitted, hist, probed, epc, wpc, wjob, wpayload,
                   wmeta, th, files, ctasks, nfile, dpc, hc, nops, lastop,
                   written, raced, replaced, hits, rlnow, rlLimit, rlWindow,
                   rllog, heap, held, canon, fs, fault, todo, visited, fs0,
                   nsweep, resp>>

\* The loop is over: asyncio.sleep(interval_seconds)
SweepDone ==
    /\ swpc = "sweep"
    /\ todo = <<>>
    /\ swpc' = "sleep"
    /\ nsweep' = nsweep + 1
    /\ UNCHANGED <<mode, jobs, queue, redis, rqueue, nextId, clock, returned,
                   expired, submitted, hist, probed, epc, wpc, wjob, wpayload,
                   wmeta, th, files, ctasks, nfile, dpc, hc, nops, lastop,
                   written, raced, replaced, hits, rlnow, rlLimit, rlWindow,
                   rllog, heap, held, canon, fs, fault, todo, visited, fs0,
                   resp>>

\* A tree is closed under parents.
Trees ==
    {f \in UNION {[S -> 0..MaxMtime] : S \in SUBSET Nodes} :
        \A p \in DOMAIN f : Exists(f, ParentOf(p))}

InitSweep ==
    /\ mode = "memory"
    /\ Constructed
    /\ LimiterIdle
    /\ fs \in Trees
    /\ fault \in {x \in Faults : x = None \/ x[1].op \in FaultOps(x[1].path)}
    /\ swpc = "sleep"
    /\ todo = <<>>
    /\ visited = {}
    /\ fs0 = <<>>
    /\ nsweep = 0

NextSweep ==
    \/ SweepStart
    \/ SweepVisit
    \/ SweepRaise
    \/ SweepDone

SpecSweep == InitSweep /\ [][NextSweep]_vars

\* ------------------------------------------------------------- properties
Range(seq) == {seq[i] : i \in DOMAIN seq}
Terminal == {"done", "error", "deleted"}
StatusIs(rec, s) == "status" \in DOMAIN rec /\ rec["status"] = s
ResultNonNull(rec) == "result" \in DOMAIN rec /\ rec["result"] # None

\* C2: from a job's creation until it reaches a terminal status, no step
\* lowers the progress value stored for it.
C2_ProgressNeverDecreases ==
    [][\A id \in Ids :
          LET a == BackendGet(id)
              b == BackendGet(id)'
          IN (/\ a # None
              /\ b # None
              /\ {"status", "progress"} \subseteq DOMAIN a[1]
              /\ "progress" \in DOMAIN b[1]
              /\ a[1]["status"] \notin Terminal)
             => b[1]["progress"] >= a[1]["progress"]]_vars

\* C3: in every reachable state and for every stored record, the result is
\* non-null exactly when the status is done; so a record with status error or
\* deleted has a null result and a record with status done has a result.
C3_ResultIffDone ==
    \A id \in Ids :
        LET g == BackendGet(id)
        IN g # None => (ResultNonNull(g[1]) <=> StatusIs(g[1], "done"))

\* A deleted record without a result next to a done record with one.
C3_Witness ==
    \E a \in Ids, b \in Ids :
        /\ BackendGet(a) # None
        /\ BackendGet(b) # None
        /\ StatusIs(BackendGet(a)[1], "deleted")
        /\ ~ResultNonNull(BackendGet(a)[1])
        /\ StatusIs(BackendGet(b)[1], "done")
        /\ ResultNonNull(BackendGet(b)[1])

\* The status changes the lifecycle allows for a job whose target format is
\* `want`.
StatusStep(s, t, want) ==
    \/ s = "queued" /\ t = "fetching"
    \/ s = "fetching" /\ t = "downloading"
    \/ s = "downloading" /\ t = "converting"
    \/ s = "downloading" /\ t = "done" /\ want = "source"
    \/ s = "converting" /\ t = "done"
    \/ s \notin Terminal /\ t = "error"
    \/ s \in {"done", "error"} /\ t = "deleted"

\* C4: the statuses stored for a job, in the order they were stored, start at
\* queued and every change follows queued -> fetching -> downloading ->
\* converting -> done (converting skipped only for the keep-original format),
\* to error from a non-terminal status, or to deleted from done or error; so
\* a terminal status is left only by done -> deleted and error -> deleted.
C4_StatusChanges ==
    \A id \in DOMAIN hist :
        /\ hist[id][1] = "queued"
        /\ \A i \in 1..(Len(hist[id]) - 1) :
              StatusStep(hist[id][i], hist[id][i + 1], Want(submitted[id]))

\* One job went through converting to done and was deleted, another skipped
\* converting, or ended in error.
C4_Witness ==
    \E a \in DOMAIN hist, b \in DOMAIN hist :
        /\ hist[a] = <<"queued", "fetching", "downloading", "converting",
                       "done", "deleted">>
        /\ \/ hist[b] = <<"queued", "fetching", "downloading", "done">>
           \/ hist[b][Len(hist[b])] = "error"

\* C6: in ephemeral mode, once the pipeline has stored the metadata of a job
\* during fetching, the job's record holds that metadata, unchanged, in every
\* later state, whatever the interleaving of the transfer thread's progress
\* writes with the other writers.
C6_MetaPersists ==
    mode = "memory" =>
        \A id \in DOMAIN probed :
            LET g == BackendGet(id)
            IN /\ g # None
               /\ "meta" \in DOMAIN g[1]
               /\ g[1]["meta"] = Some(probed[id])

\* The hook has written a progress value over a record that holds metadata.
C6_Witness ==
    /\ mode = "memory"
    /\ \E id \in DOMAIN probed :
          /\ StatusIs(BackendGet(id)[1], "downloading")
          /\ BackendGet(id)[1]["progress"] > 15
          /\ th.n = MaxHooks

\* GET /status/{job_id}, lines 66-68: 404 for a missing or empty record.
StatusNotFound(job_id) == Falsy(JobStatus(job_id))

\* C8 as stated: an id never returned by job creation is answered not-found,
\* and an id that was returned is never answered not-found before it is
\* explicitly deleted, in either mode.
C8_NotFoundOnlyIfNeverCreated ==
    ApiFree =>
        \A id \in Ids :
            /\ id \notin Range(returned) => StatusNotFound(id)
            /\ (id \in Range(returned) /\ "deleted" \notin Range(hist[id]))
                   => ~StatusNotFound(id)

\* C8 amended: an id never returned by job creation is answered not-found; an
\* id that was returned is answered not-found only in durable mode and only
\* after its record outlived its TTL without a write.
C8_NotFoundOnlyIfNeverCreatedOrExpired ==
    ApiFree =>
        \A id \in Ids :
            /\ id \notin Range(returned) => StatusNotFound(id)
            /\ (id \in Range(returned) /\ StatusNotFound(id))
                   => (mode = "rq" /\ id \in expired)

\* A created id is answered not-found, and another id was never created.
C8_Witness ==
    /\ ApiFree
    /\ \E id \in Range(returned) : StatusNotFound(id)
    /\ \E id \in Ids : id \notin Range(returned)

\* Every key of `pre` outside `named` is in `post` with the same value.
Frame(pre, post, named) ==
    \A k \in DOMAIN pre \ named : k \in DOMAIN post /\ post[k] = pre[k]

IsUpdate(op) == op.kind \in {"job_update", "run_job.update"}

\* C5: updates applied one after the other through job_update merge.  After
\* an update that ran without another write between its read and its write,
\* the record holds the named values and every other field except updated_at
\* is as it was; and a status read of a job that was only ever updated that
\* way returns, for every field some update has set, the value it was last
\* set to (meta = X then progress = 50 reads back both).
C5_SequentialMerge ==
    /\ (lastop.kind = "job_update" /\ ~lastop.stale) =>
          LET post == JobStatus(lastop.job_id)
          IN /\ post # None
             /\ \A k \in DOMAIN lastop.fields :
                   k \in DOMAIN post[1] /\ post[1][k] = lastop.fields[k]
             /\ lastop.pre # None =>
                   Frame(lastop.pre[1], post[1],
                         DOMAIN lastop.fields \cup {"updated_at"})
    /\ \A id \in DOMAIN written \ (raced \cup replaced) :
          LET job == JobStatus(id)
          IN /\ job # None
             /\ \A k \in DOMAIN written[id] :
                   k \in DOMAIN job[1] /\ job[1][k] = written[id][k]

\* Two updates that named different fields ran one after the other and the
\* record holds both values.
C5_Witness ==
    /\ lastop.kind = "job_update"
    /\ ~lastop.stale
    /\ lastop.job_id \notin raced \cup replaced
    /\ lastop.fields = [progress |-> 50]
    /\ lastop.pre[1]["meta"] = Some("X")
    /\ JobStatus(lastop.job_id)[1]["meta"] = Some("X")
    /\ JobStatus(lastop.job_id)[1]["progress"] = 50
    /\ JobStatus(lastop.job_id)[1]["updated_at"] > lastop.pre[1]["updated_at"]

\* C7: every update of a record that is only ever written by updates behaves
\* as one atomic read-modify-write, also when another context updates the
\* same record between its read and its write:
\* relative to the record as it was just before the write, only the named
\* fields (and updated_at) differ, so a field another update has just set is
\* still there.
C7_AtomicReadModifyWrite ==
    (IsUpdate(lastop) /\ lastop.pre # None /\ lastop.job_id \notin replaced) =>
        Frame(lastop.pre[1], JobStatus(lastop.job_id)[1],
              DOMAIN lastop.fields \cup {"updated_at"})

\* C9: a step in which enqueue returns an id returns one that no earlier
\* call returned; in the state it leaves, get(id) is a record with status
\* queued, progress 0, a null result and the submitted payload, and the id
\* has just been put on the handoff channel, where it was not before; no
\* other step puts anything on the channel.
C9_Enqueue ==
    [][LET chan == IF mode = "memory" THEN queue ELSE rqueue
           chanAfter == IF mode = "memory" THEN queue' ELSE rqueue'
       IN IF returned' # returned
          THEN \E id \in Ids :
                  /\ returned' = Append(returned, id)
                  /\ id \notin Range(returned)
                  /\ id \notin Range(chan)
                  /\ chanAfter = Append(chan, id)
                  /\ LET g == BackendGet(id)'
                     IN /\ g # None
                        /\ StatusIs(g[1], "queued")
                        /\ g[1]["progress"] = 0
                        /\ "result" \in DOMAIN g[1]
                        /\ g[1]["result"] = None
                        /\ g[1]["payload"] = submitted'[id]
          ELSE chanAfter = chan]_vars

\* Two ids were returned, under either backend, for different payloads.
C9_Witness ==
    /\ Len(returned) = 2
    /\ returned[1] # returned[2]
    /\ submitted[returned[1]] # submitted[returned[2]]
    /\ mode = "rq"
    /\ nops = 0
    /\ rqueue = returned
    /\ BackendGet(returned[2]) # None
    /\ BackendGet(returned[2])[1]["payload"] = submitted[returned[2]]

\* C10 as stated: set(id, fields) merges - every key of the stored record
\* that fields does not name keeps its value.
C10_SetMerges ==
    (lastop.kind = "set" /\ lastop.pre # None) =>
        Frame(lastop.pre[1], GetOrEmpty(lastop.job_id), DOMAIN lastop.fields)

\* C10 amended: set(id, data) replaces - after it returns the stored record
\* is exactly data, whatever the record held before.
C10_SetReplaces ==
    lastop.kind = "set" => BackendGet(lastop.job_id) = Some(lastop.fields)

\* A set with a partial dict over a full record.
C10_Witness ==
    /\ lastop.kind = "set"
    /\ lastop.pre # None
    /\ DOMAIN lastop.pre[1] \ DOMAIN lastop.fields # {}
    /\ BackendGet(lastop.job_id) = Some(lastop.fields)

\* The earlier calls of the identity of call i, and the earlier admitted
\* calls of that identity whose event is at most the window old at call i.
Earlier(i) == {j \in 1..(i - 1) : rllog[j].who = rllog[i].who}
Recent(i) ==
    {j \in Earlier(i) : rllog[j].ok /\ rllog[i].at - rllog[j].at <= rlWindow}
FirstOf(S) == CHOOSE j \in S : \A k \in S : j <= k

\* Starting from an empty history, the first L calls made within W seconds
\* are admitted and the next call inside the same window is rejected.
BurstThenReject ==
    \A i \in DOMAIN rllog :
        LET e == Earlier(i)
        IN IF e = {} THEN rllog[i].ok
           ELSE rllog[i].at - rllog[FirstOf(e)].at <= rlWindow =>
                   /\ Cardinality(e) < rlLimit => rllog[i].ok
                   /\ Cardinality(e) = rlLimit => ~rllog[i].ok

\* No identity is admitted more than L times within any W-second interval.
AtMostLimitPerWindow ==
    \A who \in Identities, t \in 0..MaxTime :
        Cardinality({i \in DOMAIN rllog :
                        /\ rllog[i].who = who
                        /\ rllog[i].ok
                        /\ t <= rllog[i].at
                        /\ rllog[i].at <= t + rlWindow}) <= rlLimit

\* Call j is the next call of the identity of call i, at the same instant.
NextAtOnce(i, j) ==
    /\ i < j
    /\ rllog[j].who = rllog[i].who
    /\ rllog[j].at = rllog[i].at
    /\ \A k \in (i + 1)..(j - 1) : rllog[k].who # rllog[i].who

\* Call i finds a full list whose oldest event is more than W seconds old.
FullAndAged(i) ==
    /\ Len(rllog[i].before) = rlLimit
    /\ rllog[i].at - rllog[i].before[1] > rlWindow

\* C1 as stated: the burst of L is admitted and the next call rejected; once
\* the oldest admitted event is more than W seconds old exactly one further
\* call is admitted (the call after it, at the same instant, is rejected);
\* and no identity is admitted more than L times in any W-second interval.
C1_ExactlyOneAfterAging ==
    /\ BurstThenReject
    /\ \A i \in DOMAIN rllog, j \in DOMAIN rllog :
          (FullAndAged(i) /\ NextAtOnce(i, j)) =>
              (rllog[i].ok /\ ~rllog[j].ok)
    /\ AtMostLimitPerWindow

\* C1 amended: the burst of L is admitted and the next call rejected; a call
\* is admitted exactly when fewer than L admitted events of its identity are
\* at most W seconds old, so once the oldest admitted event is more than W
\* seconds old a further call is admitted, and as many further calls as
\* events have aged out; and no identity is admitted more than L times in
\* any W-second interval.
C1_SlidingWindow ==
    /\ BurstThenReject
    /\ \A i \in DOMAIN rllog :
          rllog[i].ok <=> Cardinality(Recent(i)) < rlLimit
    /\ \A i \in DOMAIN rllog : FullAndAged(i) => rllog[i].ok
    /\ AtMostLimitPerWindow

\* A full list whose two oldest events have both aged out: the call that
\* finds it and the next one are both admitted.
C1_Witness ==
    \E i \in DOMAIN rllog, j \in DOMAIN rllog :
        /\ FullAndAged(i)
        /\ NextAtOnce(i, j)
        /\ rllog[i].ok
        /\ rllog[j].ok

\* C11: every write of a record by an update - job_update, the memory worker's
\* updater, run_job.update - leaves the record carrying the job's id and an
\* updated_at equal to the time of that write.
C11_EveryWriteStamps ==
    IsUpdate(lastop) =>
        LET post == BackendGet(lastop.job_id)
        IN /\ post # None
           /\ "job_id" \in DOMAIN post[1]
           /\ post[1]["job_id"] = lastop.job_id
           /\ "updated_at" \in DOMAIN post[1]
           /\ post[1]["updated_at"] = lastop.at

\* What the worker reads as the payload of a job (`job.get("payload") or {}`).
WorkerReads(job_id) ==
    LET p == PayloadOf(JobStatus(job_id)[1])
    IN IF IsRef(p) THEN heap[p.ref] ELSE p

\* C12: whatever a caller does to a value job_status returned, a later
\* job_status of the same id returns the record as its last write stored it,
\* nested payload included, and the worker reads that payload.
C12_Snapshot ==
    \A job_id \in DOMAIN canon :
        /\ JobStatus(job_id) # None
        /\ Deep(heap, JobStatus(job_id)[1]) = canon[job_id]
        /\ WorkerReads(job_id) = canon[job_id]["payload"]

\* C13: without a backend every lifecycle call raises and changes nothing;
\* with one, job_status of an id that was never allocated returns None and
\* leaves the store and the queues as they were.
C13_ConfigErrorOrAbsent ==
    [][/\ mode = "none" =>
            /\ held'.raised
            /\ UNCHANGED <<storeVars, procVars, heap, canon>>
       /\ (/\ mode # "none"
           /\ nops' # nops
           /\ held'.op = "job_status"
           /\ ~held'.mut
           /\ held'.job_id >= nextId) =>
            /\ ~held'.raised
            /\ held'.value = None
            /\ UNCHANGED <<jobs, redis, queue, rqueue, heap, canon>>]_vars

C13_Witness ==
    /\ mode = "none"
    /\ held.raised
    /\ held.op = "job_update"

\* A sweep has just run to its end.
SweepOver == swpc = "sleep" /\ nsweep > 0

\* C14: after a sweep in which no operation failed, every file that was
\* older than the TTL is gone and every file that was newer is still there,
\* a newer file inside an older directory included.
C14_SweepExact ==
    (SweepOver /\ fault = None) =>
        \A p \in DOMAIN fs0 \ DirPaths :
            /\ clock - fs0[p] > JobTtlSec => p \notin DOMAIN fs
            /\ clock - fs0[p] < JobTtlSec => p \in DOMAIN fs

\* The paths below a path whose stat fails are not reached through it.
BelowFault(p) == Fails(ParentOf(p), "stat")

\* C15: a failing stat, listing, unlink or rmdir at one path never ends the
\* periodic task, and the sweep reaches every other path of the tree.
C15_ErrorsSwallowed ==
    /\ swpc # "dead"
    /\ SweepOver => \A p \in DOMAIN fs0 : BelowFault(p) \/ p \in visited

\* C16: a submission answered with 429 or 400 yields no job id and leaves the
\* records, the queues and the ids handed out as they were.
C16_RejectedChangesNothing ==
    [][resp'.status \in {400, 429} =>
          /\ resp'.job_id = None
          /\ UNCHANGED <<jobs, queue, redis, rqueue, nextId, returned,
                         submitted, hist, epc>>]_vars

C16_Witness ==
    /\ resp.op = "POST /download"
    /\ resp.status = 400
    /\ returned # <<>>
    /\ \E c \in DOMAIN hits : hits[c] # <<>>

DeletedRecord(job_id) ==
    LET job == JobStatus(job_id)
    IN job # None /\ StatusIs(job[1], "deleted") /\ ~ResultNonNull(job[1])

\* C17: a DELETE for an id whose record has a result ends with the artifact
\* off the disk and the record at status deleted with a null result.
C17_DeleteAlwaysDeletes ==
    [][\A id \in Ids :
          (/\ resp' # resp
           /\ resp'.op = "DELETE /file"
           /\ resp'.status # 0
           /\ resp'.job_id = Some(id))
          => /\ DeletedRecord(id)'
             /\ resp'.path \notin DOMAIN files']_vars

\* A retrieval of a done job has been answered (with the file, or with the
\* error FileResponse raises).
Retrieved(job_id) ==
    /\ resp.op = "GET /file"
    /\ resp.status # 404
    /\ resp.job_id = Some(job_id)

\* The record is deleted and the artifact that was retrieved is off the disk.
Gone(job_id) ==
    /\ DeletedRecord(job_id)
    /\ Retrieved(job_id) => resp.path \notin DOMAIN files

\* C18: a retrieval answered 404 changes no record and no file; a retrieval
\* of a done job is followed, sooner or later, by the artifact removed and the
\* record deleted with a null result; and a deleted record is not ready for
\* retrieval.
C18_RetrievalThenDeleted ==
    /\ [][(resp' # resp /\ resp'.op = "GET /file" /\ resp'.status = 404) =>
             UNCHANGED <<jobs, redis, queue, rqueue, files, ctasks>>]_vars
    /\ \A id \in Ids : Retrieved(id) ~> Gone(id)
    /\ [](\A id \in Ids : DeletedRecord(id) => ~FileReady(JobStatus(id)))

\* C19: no error of the file system met while an artifact is removed reaches
\* the client, and the record is deleted all the same - in delete_file and
\* in the cleanup after a retrieval.
C19_RemovalErrorsSwallowed ==
    /\ ~(resp.op = "DELETE /file" /\ resp.status = 500)
    /\ \A i \in DOMAIN ctasks :
          (ctasks[i].pc = "done" /\ ctasks[i].path \in DOMAIN files) =>
              \/ JobStatus(ctasks[i].job_id) = None
              \/ DeletedRecord(ctasks[i].job_id)

\* C20: after the same operations, get(id) answers the same on the memory
\* backend and on the rq backend, for every id; so the records a client sees
\* while a pipeline runs are the same over either.
C20_BackendsAgree ==
    \A id \in Ids : MemGet(jobs, id) = RqGet(redis, id)

\* ------------------------------------------------ the worker and its jobs
Active == {"fetching", "downloading", "converting"}

\* The statuses stored for a job so far, in order.
HistOf(job_id) == IF job_id \in DOMAIN hist THEN hist[job_id] ELSE <<>>

\* The job has been given status done or error at some point.
Reached(job_id) == \E i \in DOMAIN HistOf(job_id) :
                      HistOf(job_id)[i] \in {"done", "error"}

\* The job's record has been given a status other than the initial queued.
LeftQueued(job_id) == Len(HistOf(job_id)) > 1

\* The worker took the id off the queue and found no record for it.
Skipped(job_id) ==
    /\ job_id \notin Range(queue)
    /\ wjob # job_id
    /\ Falsy(JobStatus(job_id))

ActiveJobs == {id \in Range(returned) :
                 /\ ~Falsy(JobStatus(id))
                 /\ JobStatus(id)[1]["status"] \in Active}

\* C21: with the in-memory backend jobs are processed one at a time in the
\* order they were enqueued: a job has left status queued only if every job
\* enqueued before it has reached done or error (or was skipped), and at no
\* moment do two jobs have a status among fetching, downloading, converting.
C21_OneAtATime ==
    mode = "memory" =>
       /\ Cardinality(ActiveJobs) <= 1
       /\ \A i, j \in DOMAIN returned :
             (i < j /\ LeftQueued(returned[j])) =>
                (Reached(returned[i]) \/ Skipped(returned[i]))

\* The second job is being processed after the first one failed.
C21_Witness ==
    /\ mode = "memory"
    /\ Len(returned) = 2
    /\ ActiveJobs = {returned[2]}
    /\ HistOf(returned[1])[Len(HistOf(returned[1]))] = "error"

\* C22: with the in-memory backend, when the worker loop keeps being run and
\* every external operation returns or raises, every enqueued job eventually
\* reaches status done or error, whatever was enqueued before it.
C22_EveryJobEnds ==
    \A id \in 1..MaxJobs :
       (mode = "memory" /\ id \in Range(returned)) ~> Reached(id)

\* The last job that can be enqueued has ended after the one before it failed.
C22_Witness ==
    /\ mode = "memory"
    /\ Len(returned) = MaxJobs
    /\ Reached(returned[MaxJobs])
    /\ "error" \in Range(HistOf(returned[1]))

\* The record of job_id has status error with this message in both fields.
ErrorRecord(job_id, msg) ==
    /\ DictGet(GetOrEmpty(job_id), "status") = Some("error")
    /\ DictGet(GetOrEmpty(job_id), "message") = Some(msg)
    /\ DictGet(GetOrEmpty(job_id), "error") = Some(Some(msg))

\* C23: when the pipeline raises a failure it has not turned into an error
\* status itself, the in-memory worker loop writes status error with the
\* failure's message to the job's record in the same step, takes no id off
\* the queue before that, and is back at its loop for the ids that follow.
C23_LoopCatches ==
    [][\A id \in Ids :
          (/\ mode = "memory"
           /\ wpc = "start"
           /\ wjob = id
           /\ RaisesBeforeTry(wpayload)
           /\ wpc' # wpc)
          => /\ ErrorRecord(id, "no_lower")'
             /\ queue' = queue
             /\ wpc' \in {"wait", "next"}]_vars

\* The loop caught the failure of the first job and is processing the second.
C23_Witness ==
    /\ mode = "memory"
    /\ Len(returned) = 2
    /\ ErrorRecord(returned[1], "no_lower")
    /\ LeftQueued(returned[2])

\* The queue the worker of the configured backend takes its ids from.
WorkQueue == IF mode = "memory" THEN queue ELSE rqueue

\* C24: a worker (the in-memory loop or run_job) that takes an id whose
\* record is absent runs no pipeline step and writes nothing: the store is
\* left as it is, without a record for the id, nothing is put on disk, and
\* the worker returns to its queue without an error.
C24_MissingRecordSkipped ==
    [][\A id \in Ids :
          (/\ WorkQueue # <<>>
           /\ Head(WorkQueue) = id
           /\ BackendGet(id) = None
           /\ WorkQueue' = Tail(WorkQueue))
          => /\ jobs' = jobs
             /\ redis' = redis
             /\ hist' = hist
             /\ files' = files
             /\ th' = th
             /\ wjob' = wjob
             /\ wpc' \in {"wait", "next"}
             /\ BackendGet(id)' = None]_vars

\* An id was taken off the queue after its record had gone: it has no record
\* and was never given a status other than the initial one.
C24_Witness ==
    \E id \in Range(returned) :
       /\ id \notin Range(WorkQueue)
       /\ epc = None
       /\ BackendGet(id) = None
       /\ HistOf(id) = <<"queued">>

\* process_job_async, lines 29-35: the payload has no url, or its format is
\* not one of ALLOWED_FORMATS.
Unacceptable(payload) ==
    \/ DictGet(payload, "url") \in {None, Some("")}
    \/ Want(payload) \notin ALLOWED_FORMATS

\* The worker is inside the pipeline of job_id, past its validation.
InPipeline(job_id) ==
    /\ wjob = job_id
    /\ (wpc \in {"probe", "check", "download", "convert"} \/ th.pc # "off")

FilesOf(job_id) == {p \in DOMAIN files : p[1] = job_id}

\* C25: a job whose payload has no url, or names a format outside the allowed
\* set, goes from queued to error in one write; probe, transfer and transcode
\* are not invoked for it and its record never has status fetching,
\* downloading or converting.
C25_RejectedAtOnce ==
    \A id \in DOMAIN submitted :
       Unacceptable(submitted[id]) =>
          /\ HistOf(id) \in {<<"queued">>, <<"queued", "error">>}
          /\ id \notin DOMAIN probed
          /\ FilesOf(id) = {}
          /\ ~InPipeline(id)

\* One job without a url and one with a format outside the set have both
\* ended in error.
C25_Witness ==
    \E a, b \in DOMAIN submitted :
       /\ "url" \notin DOMAIN submitted[a]
       /\ "url" \in DOMAIN submitted[b]
       /\ Want(submitted[b]) \notin ALLOWED_FORMATS
       /\ HistOf(a) = <<"queued", "error">>
       /\ HistOf(b) = <<"queued", "error">>

\* The record of job_id, or the empty dict when there is none.
Rec(job_id) == GetOrEmpty(job_id)

\* The worker is in the pipeline of job_id at the size check of the estimate,
\* and the estimate is over the limit.
EstimateOver(job_id) ==
    /\ wjob = job_id
    /\ wpc = "check"
    /\ CheckSizeFails(wmeta.estimated_size_mb, MaxFileSizeMb)

\* The transfer of job_id has returned a file whose size is over the limit,
\* and the pipeline is at the size check of the file.
FileOver(job_id) ==
    /\ wjob = job_id
    /\ wpc = "download"
    /\ th.pc = "ok"
    /\ SourcePath(job_id) \in DOMAIN files
    /\ SizeOverLimit(files[SourcePath(job_id)], MaxFileSizeMb)

\* The pipeline of job_id stops here with an error record that still holds
\* the metadata probe returned and no result; nothing is written to disk.
StopsInError(job_id) ==
    /\ wpc' \in {"wait", "next"}
    /\ th' = ThreadOff
    /\ files' = files
    /\ DictGet(Rec(job_id), "status")' = Some("error")
    /\ DictGet(Rec(job_id), "meta")' = Some(Some(wmeta))
    /\ DictGet(Rec(job_id), "result")' \in {None, Some(None)}

\* C26: the size limit stops the pipeline at two points.  An estimate over
\* the limit ends the job in error before the transfer is started, while an
\* unknown estimate lets the transfer start; a transferred file over the
\* limit ends the job in error before any transcoding, with a null result.
\* In both cases the record keeps the metadata probe returned.
C26_SizeGates ==
    [][\A id \in Ids :
          /\ (EstimateOver(id) /\ wpc' # wpc) =>
                (StopsInError(id) /\ FilesOf(id) = {})
          /\ (wjob = id /\ wpc = "check" /\ wmeta.estimated_size_mb = None
                /\ wpc' # wpc) => (wpc' = "download" /\ th'.pc = "run")
          /\ (FileOver(id) /\ wpc' # wpc) => StopsInError(id)]_vars

\* C27: while a job is downloading, every call of the progress callback
\* issues exactly one update of the record, whose progress is
\* floor(15 + 70 * transferred / total) clamped to 20..90, so that after any
\* callback the stored progress is in 20..90 and above the 15 written on
\* entering downloading.
C27_CallbackUpdates ==
    [][/\ (th.pc = "run" /\ th'.n = th.n + 1) =>
             /\ th'.pc = "got"
             /\ \E done \in 0..MaxBytes, total \in 1..MaxBytes :
                   th'.val = Min(90, Max(20, 15 + (70 * done) \div total))
       /\ (th.pc \in {"run", "got"} /\ th'.pc = "run" /\ th' # th) =>
             /\ DictGet(Rec(wjob), "progress")' \in {Some(p) : p \in 20..90}
             /\ DictGet(Rec(wjob), "progress")' # Some(15)]_vars

\* ------------------------------------------------------------ conversion
StatusOf(job_id) == DictGet(Rec(job_id), "status")

\* The file the record of a done job names.
ResultPath(job_id) == Rec(job_id)["result"][1].file_path

\* The pipeline of job_id goes from the end of its transfer into converting.
EntersConverting(job_id) ==
    wjob = job_id /\ wpc = "download" /\ wpc' = "convert"

\* The pipeline of job_id leaves the transcode step.
LeavesConvert(job_id) == wjob = job_id /\ wpc = "convert" /\ wpc' # wpc

\* The pipeline of a keep-original job ends after its transfer.
KeepsOriginal(job_id) ==
    /\ wjob = job_id
    /\ wpc = "download"
    /\ wpc' \in {"wait", "next"}
    /\ StatusOf(job_id)' = Some("done")

\* What holds of every conversion whether or not the old file could be
\* removed: converting is written (95 for a video target, 92 for audio)
\* before the transcode touches the disk; a failed transcode ends in error
\* with the files as they were; a job that keeps the original never enters
\* converting and names the transferred file.
ConversionFrame(id) ==
    /\ EntersConverting(id) =>
          /\ Want(wpayload) # "source"
          /\ StatusOf(id)' = Some("converting")
          /\ DictGet(Rec(id), "progress")' =
                Some(IF Want(wpayload) \in {"mp4", "webm", "mkv"}
                     THEN 95 ELSE 92)
          /\ files' = files
    /\ (LeavesConvert(id) /\ StatusOf(id)' # Some("done")) =>
          /\ StatusOf(id)' = Some("error")
          /\ files' = files
          /\ SourcePath(id) \in DOMAIN files'
    /\ KeepsOriginal(id) =>
          /\ Want(wpayload) = "source"
          /\ "converting" \notin Range(HistOf(id))'
          /\ ResultPath(id)' = SourcePath(id)
    /\ (wjob = id /\ Want(wpayload) = "source") =>
          "converting" \notin Range(HistOf(id))'

\* The done write after a transcode names a file that is on disk and is not
\* the transferred one.
NamesNewFile(id) ==
    /\ ResultPath(id)' \in DOMAIN files'
    /\ ResultPath(id)' # SourcePath(id)

\* C28 as stated: for a target other than keep-original the job enters
\* converting (95 video, 92 audio) before the transcode; after a successful
\* transcode the transferred file is gone and the job is done with a result
\* naming a different file that is on disk; after a failed one the
\* transferred file is in place and the job is in error; a keep-original job
\* never enters converting and its result is the transferred file.
C28_ConvertReplaces ==
    [][\A id \in Ids :
          /\ ConversionFrame(id)
          /\ (LeavesConvert(id) /\ StatusOf(id)' = Some("done")) =>
                /\ NamesNewFile(id)
                /\ SourcePath(id) \notin DOMAIN files']_vars

\* C28 amended: as stated, except that after a successful transcode the
\* removal of the transferred file is attempted and an OSError from it is
\* passed over: the transferred file is gone or left as it was, and no other
\* file is touched.
C28_ConvertAttemptsRemoval ==
    [][\A id \in Ids :
          /\ ConversionFrame(id)
          /\ (LeavesConvert(id) /\ StatusOf(id)' = Some("done")) =>
                /\ NamesNewFile(id)
                /\ DOMAIN files' \cup {SourcePath(id)} =
                      DOMAIN files \cup {ResultPath(id)'}
                /\ \A p \in DOMAIN files \cap DOMAIN files' :
                      files'[p] = files[p]]_vars

\* A job was converted and is done: its result names the new file, which is
\* on disk, and the transferred file is still there, its removal having
\* failed.
C28_Witness ==
    \E id \in Range(returned) :
       /\ "converting" \in Range(HistOf(id))
       /\ StatusOf(id) = Some("done")
       /\ ResultPath(id) \in DOMAIN files
       /\ ResultPath(id) # SourcePath(id)
       /\ SourcePath(id) \in DOMAIN files

\* ---------------------------------------------------- failures in the try
\* The worker is inside the try block of the pipeline of job_id.
InTry(job_id) ==
    wjob = job_id /\ wpc \in {"probe", "check", "download", "convert"}

\* No id is on the work queue twice, and an id on it has not been handed to
\* the pipeline: its record was never given a second status and the worker
\* is not holding it.
HandedOnce ==
    /\ \A i, j \in DOMAIN WorkQueue :
          WorkQueue[i] = WorkQueue[j] => i = j
    /\ \A i \in DOMAIN WorkQueue :
          ~LeftQueued(WorkQueue[i]) /\ WorkQueue[i] # wjob

\* No external operation runs or is about to run for a job whose record has
\* status error.
NothingAfterError ==
    \A id \in Ids :
       StatusOf(id) = Some("error") =>
          ~(wjob = id /\ (wpc \in {"start", "probe", "check", "download",
                                   "convert"} \/ th.pc # "off"))

\* C29: a failure raised by probe, a size check, the transfer or the
\* transcode is written to the job's record as status error with message and
\* error both equal to the failure's message; it does not reach the caller
\* that submitted the job, and nothing is retried: an id is handed to the
\* pipeline at most once and no external operation runs for a job whose
\* record has status error.
C29_FailuresCaptured ==
    [][/\ \A id \in Ids :
             (InTry(id) /\ wpc' # wpc
                /\ wpc' \notin {"check", "download", "convert"}
                /\ StatusOf(id)' # Some("done")) =>
                /\ \E m \in {"probe_failed", "estimate_over_limit",
                             "download_failed", "stat_failed",
                             "file_over_limit", "ffmpeg_failed"} :
                      ErrorRecord(id, m)'
                /\ wpc' \in {"wait", "next"}
                /\ resp' = resp
                /\ epc' = epc
       /\ HandedOnce'
       /\ NothingAfterError']_vars

\* The transcode of a job has failed and the failure is in its record.
C29_Witness ==
    \E id \in Range(returned) :
       /\ ErrorRecord(id, "ffmpeg_failed")
       /\ HistOf(id) = <<"queued", "fetching", "downloading", "converting",
                         "error">>
       /\ wpc \in {"wait", "next"}

\* ---------------------------------------------------------- cancellation
\* The fields every record is created with.
RecordKeys == DOMAIN InitialRecord(0, EmptyDict, 0)

\* C30: when the worker loop is cancelled at shutdown, the record of the job
\* in flight keeps the status it had: the cancellation writes no status, no
\* later step changes the status of any job, every record still has all its
\* fields, and the worker takes no further id off the queue.
C30_CancelLeavesStatus ==
    [][(wpc' = "cancelled") =>
          /\ \A id \in Ids : StatusOf(id)' = StatusOf(id)
          /\ \A id \in Range(returned) : RecordKeys \subseteq DOMAIN Rec(id)'
          /\ wpc = "download" => StatusOf(wjob)' \in
                {Some("fetching"), Some("downloading"), Some("converting")}
          /\ queue' = queue
          /\ wjob' = wjob]_vars

\* The worker was cancelled during a transfer: the job is still downloading
\* after the thread has written progress and returned, and the id behind it
\* is still on the queue.
C30_Witness ==
    /\ wpc = "cancelled"
    /\ StatusOf(wjob) = Some("downloading")
    /\ DictGet(Rec(wjob), "progress") # Some(15)
    /\ th.pc = "ok"
    /\ queue # <<>>

\* ------------------------------------------------------- the status query
\* The seven lifecycle values of a record's status.
Statuses == {"queued", "fetching", "downloading", "converting", "done",
             "error", "deleted"}

\* GET /status/{job_id}, lines 69-74: the keys the handler subscripts.
StatusKeys == {"status", "progress", "message", "error"}

\* GET /status/{job_id}, lines 64-82: the record is there (and not empty) and
\* one of the subscripted keys is missing: KeyError, the client gets a 500.
StatusFaults(job_id) ==
    /\ ~Falsy(JobStatus(job_id))
    /\ ~(StatusKeys \subseteq DOMAIN JobStatus(job_id)[1])

\* C31: every record a status query can read holds the keys status,
\* progress, message and error, its status is one of the seven lifecycle
\* values and its progress is in 0..100, with either backend and also after
\* a write on an id whose record had vanished; a status query on an existing
\* record never faults.
C31_RecordsReadable ==
    \A id \in Ids :
       /\ ~StatusFaults(id)
       /\ ~Falsy(JobStatus(id)) =>
             /\ JobStatus(id)[1]["status"] \in Statuses
             /\ JobStatus(id)[1]["progress"] \in 0..100

\* ------------------------------------------------- deletion without result
\* The statuses of a job that has no artifact to delete.
Undeletable == {"queued", "fetching", "downloading", "converting", "error"}

\* The step is the answer of a deletion request for job_id, or its first
\* half.
DeleteAnswers(job_id) ==
    /\ resp' # resp
    /\ resp'.op = "DELETE /file"
    /\ resp'.job_id = Some(job_id)

\* C32: a deletion request for a job whose status is queued, fetching,
\* downloading, converting or error is answered not-found and changes
\* neither a record, nor a queue, nor a file; so a job in flight is not
\* stopped by it, and no record goes from error to deleted.
C32_DeleteNeedsResult ==
    [][\A id \in Ids :
          /\ (/\ DeleteAnswers(id)
              /\ StatusOf(id) \in {Some(s) : s \in Undeletable})
                => /\ resp'.status = 404
                   /\ <<jobs, redis, queue, rqueue, files>>' =
                         <<jobs, redis, queue, rqueue, files>>
                   /\ <<wpc, wjob, th, dpc, ctasks>>' =
                         <<wpc, wjob, th, dpc, ctasks>>
          /\ \A i \in DOMAIN HistOf(id)' :
                HistOf(id)'[i] = "error" => i = Len(HistOf(id)')]_vars

\* Deletion was requested for the job being transferred and answered 404;
\* the job is still downloading.
C32_Witness ==
    \E id \in Range(returned) :
       /\ resp = Answer("DELETE /file", 404, id, None)
       /\ wjob = id
       /\ StatusOf(id) = Some("downloading")
       /\ th.pc = "run"

\* ------------------------------------------------- jobs from submission
\* C33: every job created through create_download carries a non-empty url,
\* a quality of the preset table ('auto' replaced by the default) and a
\* format of the pipeline's allowed set, so that the pipeline never ends
\* such a job with missing_url or unsupported_format.
C33_SubmittedJobsAcceptable ==
    \A id \in DOMAIN submitted :
       /\ "url" \in DOMAIN submitted[id]
       /\ submitted[id]["url"] # ""
       /\ submitted[id]["quality"] \in QUALITY_PRESETS
       /\ ~Unacceptable(submitted[id])
       /\ wjob = id => ~Unacceptable(wpayload)
       /\ DictGet(Rec(id), "error") \notin
             {Some(Some("missing_url")), Some(Some("unsupported_format"))}

\* A job submitted with quality 'auto' and format 'MP3' was converted, and
\* a job submitted with 'source' has gone past the pipeline's validation.
C33_Witness ==
    \E a, b \in DOMAIN submitted :
       /\ submitted[a] = [url |-> "https://youtu.be/v", quality |-> "720p",
                          format |-> "mp3"]
       /\ "converting" \in Range(HistOf(a))
       /\ submitted[b]["format"] = "source"
       /\ LeftQueued(b)

\* --------------------------------------------- the limiter's identities
\* The list allow would hold for `who` after the first n calls of the log if
\* the calls of the other identifiers had not been made: the calls of `who`
\* alone, at the times they were made, each pruning and appending as allow
\* does.
RECURSIVE Alone(_, _)
Alone(who, n) ==
    IF n = 0 THEN <<>>
    ELSE LET prev == Alone(who, n - 1)
             q == DropOld(prev, rllog[n].at, rlWindow)
         IN IF rllog[n].who # who THEN prev
            ELSE IF AllowReturns(q, rlLimit) THEN Append(q, rllog[n].at)
            ELSE q

\* C34: the identifiers of the rate limiter do not affect one another: in
\* any interleaving of calls, each call of an identifier finds the list and
\* returns the answer it would have with the calls of that identifier alone;
\* a rejected call stores no event, and no identifier has more events stored
\* than the limit.
C34_IdentitiesIndependent ==
    /\ \A i \in DOMAIN rllog :
          /\ rllog[i].before = Alone(rllog[i].who, i - 1)
          /\ rllog[i].ok =
                AllowReturns(DropOld(Alone(rllog[i].who, i - 1),
                                     rllog[i].at, rlWindow), rlLimit)
          /\ ~rllog[i].ok =>
                Len(Alone(rllog[i].who, i)) <= Len(Alone(rllog[i].who, i - 1))
    /\ \A who \in Identities :
          /\ who \in DOMAIN hits => hits[who] = Alone(who, Len(rllog))
          /\ who \notin DOMAIN hits => Alone(who, Len(rllog)) = <<>>
          /\ Len(HitsOf(hits, who)) <= rlLimit

\* One identifier has used up its limit and been rejected; after that, and
\* at the same reading of the clock, the other identifier is admitted.
C34_Witness ==
    \E i, j \in DOMAIN rllog :
       /\ i < j
       /\ rllog[i].who # rllog[j].who
       /\ ~rllog[i].ok
       /\ rllog[j].ok
       /\ rllog[i].at = rllog[j].at
       /\ Len(HitsOf(hits, rllog[i].who)) = rlLimit
====
